---- MODULE Spec2Model ----
(***************************************************************************)
(* The flow orchestrator of vibeweb (src/vibeweb/actions.py): execute_action *)
(* on a flow action, _execute_flow, its closures _step_should_run and       *)
(* _run_step, and the thread pool of a parallel group.                      *)
(*                                                                          *)
(* Python dicts are heap objects: `heap` maps a reference to the dict's     *)
(* contents, and a context holds references (S for ctx["steps"], V for      *)
(* ctx["vars"]), so two contexts that hold the same dict alias each other.  *)
(* Every thread of control is a stack of frames: a "flow" frame is one      *)
(* activation of _execute_flow, a "step" frame one activation of _run_step. *)
(***************************************************************************)
EXTENDS Integers, Sequences, FiniteSets, TLC

VARIABLES
    root,       \* name of the flow action the caller hands to execute_action
    run,        \* which call is in progress: 1, then 2 (the same flow once
                \* more) or 3 (the flow's one-member-group form)
    first,      \* the outcome of call 1, kept while the next call runs
    heap,       \* sequence of dict contents; a reference is an index
    threads,    \* thread id -> [state, stack, parent, member, out]
    outcome,    \* what the current call of execute_action gave its caller
    invoked,    \* the execute_action calls made by step frames:
                \* {[flow, use, step, attempt]}
    now,        \* time.monotonic(), in whole ticks
    calc        \* one call of a pure function: its arguments and what it gave

vars == <<root, run, first, heap, threads, outcome, invoked, now, calc>>

(***************************************************************************)
(* Bounds of the model.                                                     *)
(***************************************************************************)
MaxThreads == 4
MaxClock == 2

(***************************************************************************)
(* JSON values.  Every value is a record [t, v] with a string payload, so   *)
(* that a number and a string of the same spelling are different values.    *)
(***************************************************************************)
None == [t |-> "null", v |-> ""]
Str(s) == [t |-> "str", v |-> s]
Num(n) == [t |-> "int", v |-> ToString(n)]
Bool(b) == [t |-> "bool", v |-> IF b THEN "true" ELSE "false"]
ErrorData(msg) == [t |-> "error", v |-> msg]      \* {"error": msg}
Dict(r) == [t |-> "dict", v |-> ToString(r)]      \* a whole result dict
Items(s) == [t |-> "list", v |-> s]               \* a list, by its elements

EmptyDict == [key \in {} |-> None]

\* A step result; skipped = FALSE stands for a dict without the "skipped" key.
\* status 0 stands for `last is None`.
Result(ok, status, data) == [ok |-> ok, status |-> status, data |-> data, skipped |-> FALSE]
SkippedResult == [ok |-> TRUE, status |-> 204, data |-> None, skipped |-> TRUE]
NoResult == [ok |-> FALSE, status |-> 0, data |-> None, skipped |-> FALSE]
TimeoutResult == Result(FALSE, 504, ErrorData("timeout"))

\* What an activation hands back: a result, or a raised ActionError.
Returned(res) == [raised |-> FALSE, exc |-> "", res |-> res]
Raised(exc) == [raised |-> TRUE, exc |-> exc, res |-> NoResult]
NoOutcome == [raised |-> FALSE, exc |-> "none", res |-> NoResult]

(***************************************************************************)
(* Templates and conditions as the flows below use them.                    *)
(*   Const(v)            a value without placeholder                        *)
(*   Path(root, key, f)  the string "${root.key.f}" (exactly one            *)
(*                       placeholder); key or f may be "" (absent segment)  *)
(*   Index(root, key, f) the string "${root.key.f.<d>}" whose last segment  *)
(*                       <d> is U+00B2: str.isdigit() holds for it and      *)
(*                       int() raises ValueError on it                      *)
(***************************************************************************)
Const(v) == [kind |-> "const", val |-> v, root |-> "", key |-> "", field |-> ""]
Path(r, k, f) == [kind |-> "path", val |-> None, root |-> r, key |-> k, field |-> f]
Index(r, k, f) == [kind |-> "index", val |-> None, root |-> r, key |-> k, field |-> f]
NoTemplate == [kind |-> "none", val |-> None, root |-> "", key |-> "", field |-> ""]

\* when: None | true | false | {path: expected} | {"$exists": path} | {"$bogus": ..}
NoCond == [op |-> "none", path |-> NoTemplate, val |-> None]
CondLit(b) == [op |-> IF b THEN "true" ELSE "false", path |-> NoTemplate, val |-> None]
CondEq(p, v) == [op |-> "eqmap", path |-> p, val |-> v]
CondExists(p) == [op |-> "$exists", path |-> p, val |-> None]
CondBogus == [op |-> "$bogus", path |-> NoTemplate, val |-> None]

(***************************************************************************)
(* lookup_path over a context [input, S, V] whose steps/vars contents are   *)
(* given.  The first segment is a key of ctx, later segments index dicts;   *)
(* a missing segment gives None.                                            *)
(***************************************************************************)
ResultField(res, f) ==
    CASE f = "" -> Dict(res)
      [] f = "ok" -> Bool(res.ok)
      [] f = "status" -> Num(res.status)
      [] f = "data" -> res.data
      [] f = "skipped" -> IF res.skipped THEN Bool(TRUE) ELSE None
      [] OTHER -> None

lookup_path(p, input, stepsMap, varsMap) ==
    CASE p.root = "steps" ->
            IF p.key = "" THEN Dict(stepsMap)
            ELSE IF p.key \in DOMAIN stepsMap
                 THEN ResultField(stepsMap[p.key], p.field)
                 ELSE None
      [] p.root = "vars" ->
            IF p.key = "" THEN Dict(varsMap)
            ELSE IF p.key \in DOMAIN varsMap /\ p.field = ""
                 THEN varsMap[p.key]
                 ELSE None
      [] p.root = "input" -> IF p.key = "" THEN input ELSE None
      [] OTHER -> None

\* lookup_path on a digit segment: `if isinstance(cur, list) and key.isdigit():
\* idx = int(key)`.  With the segment U+00B2 the int() call raises ValueError
\* when the value reached so far is a list; on anything else the segment is a
\* dict key that is missing.
RenderRaises(tpl, input, stepsMap, varsMap) ==
    tpl.kind = "index" /\ lookup_path(tpl, input, stepsMap, varsMap).t = "list"

\* render_value: a string that is exactly one placeholder yields the looked-up
\* value itself (None when missing); anything else passes through.  (Of an
\* Index template that does not raise, the last segment is missing.)
render_value(tpl, input, stepsMap, varsMap) ==
    CASE tpl.kind = "path" -> lookup_path(tpl, input, stepsMap, varsMap)
      [] tpl.kind = "index" -> None
      [] OTHER -> tpl.val

\* eval_condition on the condition forms above; "error" is ConditionError.
eval_condition(cond, input, stepsMap, varsMap) ==
    CASE cond.op = "none" -> "true"
      [] cond.op = "true" -> "true"
      [] cond.op = "false" -> "false"
      [] cond.op = "eqmap" ->
            IF lookup_path(cond.path, input, stepsMap, varsMap) = cond.val
            THEN "true" ELSE "false"
      [] cond.op = "$exists" ->
            IF lookup_path(cond.path, input, stepsMap, varsMap) # None
            THEN "true" ELSE "false"
      [] OTHER -> "error"

\* `not step.when`: None and the literal false are both falsy in Python.
WhenIsFalsy(cond) == cond.op \in {"none", "false"}

\* (a slip: a condition that cannot be evaluated skips the step)
step_should_run_errorSkips(step, input, stepsMap, varsMap) ==
    IF WhenIsFalsy(step.when) THEN "run"
    ELSE IF eval_condition(step.when, input, stepsMap, varsMap) = "true" THEN "run"
    ELSE "skip"

\* _step_should_run: "run", "skip" or "raise" (ActionError from ConditionError).
step_should_run(step, input, stepsMap, varsMap) ==
    IF WhenIsFalsy(step.when) THEN "run"
    ELSE LET r == eval_condition(step.when, input, stepsMap, varsMap)
         IN  CASE r = "true" -> "run"
               [] r = "false" -> "skip"
               [] OTHER -> "raise"

auth_level(auth) ==
    CASE auth = "none" -> 0
      [] auth = "api" -> 1
      [] auth = "admin" -> 2
      [] OTHER -> 0

\* (a slip: one level more is let through)
FlowDepthLimit_25 == 24 + 1

\* _execute_flow refuses a context whose _flow_depth exceeds this.
FlowDepthLimit == 24

(***************************************************************************)
(* The action registry handed in ctx["actions"] and the flows it holds.     *)
(* on_error "" is None, timeout_s 0 is None, return_step "" is None.        *)
(***************************************************************************)
Step(id, use) ==
    [id |-> id, use |-> use, input |-> NoTemplate, when |-> NoCond, on_error |-> "",
     set |-> <<>>, retries |-> 0, timeout_s |-> 0, parallel |-> FALSE]
ParStep(id, use) == [Step(id, use) EXCEPT !.parallel = TRUE]

Assign(key, tpl) == [key |-> key, tpl |-> tpl]

NoFlow == [steps |-> <<>>, return_step |-> "", vars |-> <<>>]
NoValue == [ok |-> TRUE, status |-> 0, data |-> NoTemplate]

ValueAction(name, auth, ok, status, data) ==
    [name |-> name, kind |-> "value", auth |-> auth,
     value |-> [ok |-> ok, status |-> status, data |-> data], flow |-> NoFlow]
FlowAction(name, auth, steps, return_step, flowVars) ==
    [name |-> name, kind |-> "flow", auth |-> auth, value |-> NoValue,
     flow |-> [steps |-> steps, return_step |-> return_step, vars |-> flowVars]]

\* A chain of ChainLen flows, each invoking the next, the last a value action:
\* with the top-level call, ChainLen invocations of _execute_flow.
ChainLen == FlowDepthLimit + 1
ChainName(n) == "L" \o ToString(n)
ChainFlow(n) ==
    FlowAction(ChainName(n), "api",
               << Step("c", IF n < ChainLen THEN ChainName(n + 1) ELSE "v_ok") >>, "", <<>>)

\* Flows in two forms, s0; p; s2 with p sequential and with p a parallel group
\* of its own.  p uses a registered action that is not a flow, of the flow's
\* own auth level.
PairMembers == <<
    \* runs and is ok: input, when and set all read the context
    [Step("p", "v_in") EXCEPT !.input = Path("steps", "s0", "data"),
                              !.when = CondExists(Path("steps", "s0", "")),
                              !.set = <<Assign("k", Path("steps", "p", "status"))>>],
    \* fails in every pass of the retry loop, and the flow goes on
    [Step("p", "v_fail") EXCEPT !.retries = 1, !.on_error = "continue",
                                !.set = <<Assign("e", Path("steps", "p", "ok"))>>],
    \* is skipped
    [Step("p", "v_ok") EXCEPT !.when = CondEq(Path("steps", "s0", "ok"), Bool(FALSE)),
                              !.set = <<Assign("sk", Path("steps", "p", "skipped"))>>],
    \* its action raises, and the flow ends
    Step("p", "odd"),
    \* its input indexes the list s0 gave by the segment U+00B2
    [Step("p", "v_ok") EXCEPT !.input = Index("steps", "s0", "data"),
                              !.on_error = "continue"],
    \* its when cannot be evaluated
    [Step("p", "v_ok") EXCEPT !.when = CondBogus, !.on_error = "continue"] >>
SeqName(n) == "S" \o ToString(n)
ParName(n) == "P" \o ToString(n)
PairFlow(name, n, par) ==
    FlowAction(name, "api",
               << Step("s0", IF PairMembers[n].input.kind = "index" THEN "v_list" ELSE "v_ok"),
                  [PairMembers[n] EXCEPT !.parallel = par],
                  Step("s2", "v_ok") >>, "", <<>>)
SeqForms == {SeqName(n) : n \in 1 .. Len(PairMembers)}
Twin(name) == ParName(CHOOSE n \in 1 .. Len(PairMembers) : SeqName(n) = name)

Actions == {
    ValueAction("v_ok", "api", TRUE, 200, Const(Str("a"))),
    ValueAction("v_pub", "none", TRUE, 200, Const(Str("pub"))),
    ValueAction("v_fail", "api", FALSE, 500, Const(Str("e1"))),
    ValueAction("v_fail2", "api", FALSE, 502, Const(Str("e2"))),
    ValueAction("v_read", "api", TRUE, 200, Path("steps", "w", "data")),
    ValueAction("v_admin", "admin", TRUE, 200, Const(Str("adm"))),
    [name |-> "odd", kind |-> "smtp", auth |-> "api", value |-> NoValue, flow |-> NoFlow],
    \* a nested flow that records a step result and sets flow and step vars
    FlowAction("F_w", "api",
        << [Step("w", "v_ok") EXCEPT !.set = <<Assign("y", Path("steps", "w", "data"))>>] >>,
        "", <<Assign("x", Const(Str("1")))>>),
    \* a nested flow with a parallel group of its own
    FlowAction("F_par", "api",
        << [ParStep("q1", "v_ok") EXCEPT !.when = CondExists(Path("steps", "w", ""))] >>,
        "", <<>>),
    FlowAction("F_bad", "api", << Step("u", "missing") >>, "", <<>>),
    FlowAction("F_when", "api", << [Step("g", "v_ok") EXCEPT !.when = CondBogus] >>, "", <<>>),
    FlowAction("F_esc", "api", << Step("x1", "v_admin") >>, "", <<>>),
    \* two flows that invoke each other
    FlowAction("F_ping", "api", << Step("pi", "F_pong") >>, "", <<>>),
    FlowAction("F_pong", "api", << Step("po", "F_ping") >>, "", <<>>),
    \* top-level flows
    FlowAction("T_race", "api",
        << ParStep("p1", "F_w"),
           [ParStep("p2", "v_read") EXCEPT !.set = <<Assign("seen", Path("steps", "p2", "data"))>>] >>,
        "", <<>>),
    FlowAction("T_nest", "api",
        << ParStep("n1", "F_par"), ParStep("n2", "F_w") >>, "n1", <<>>),
    FlowAction("T_fail", "api",
        << [ParStep("a", "v_fail") EXCEPT !.on_error = "continue"],
           ParStep("b", "v_fail2"),
           [ParStep("c", "v_fail") EXCEPT !.on_error = "return"],
           Step("d", "v_ok") >>,
        "", <<>>),
    FlowAction("T_cont", "api",
        << [ParStep("a", "v_fail") EXCEPT !.on_error = "continue",
                                          !.set = <<Assign("flag", Path("steps", "a", "ok"))>>],
           [ParStep("b", "v_ok") EXCEPT !.when = CondEq(Path("steps", "a", "ok"), Bool(FALSE))],
           [Step("d", "v_ok") EXCEPT !.when = CondEq(Path("steps", "a", "ok"), Bool(FALSE)),
                                     !.input = Path("vars", "flag", "")] >>,
        "d", <<>>),
    FlowAction("T_esc_seq", "api",
        << Step("s1", "v_ok"),
           [Step("s2", "v_admin") EXCEPT !.on_error = "continue"],
           Step("s3", "v_ok") >>,
        "", <<>>),
    FlowAction("T_esc_par", "api",
        << [ParStep("e1", "v_ok") EXCEPT !.timeout_s = 2],
           [ParStep("e2", "v_admin") EXCEPT !.on_error = "continue"],
           Step("e3", "v_ok") >>,
        "", <<>>),
    FlowAction("T_admin", "admin",
        << Step("m1", "v_admin"),
           Step("m2", "F_w"),
           [Step("m3", "odd") EXCEPT !.on_error = "continue", !.retries = 1],
           [Step("m4", "v_admin") EXCEPT !.when = CondLit(TRUE)] >>,
        "m4", <<>>),
    FlowAction("T_none", "none",
        << Step("z1", "v_pub"), Step("z2", "v_ok") >>, "", <<>>),
    FlowAction("T_time", "api",
        << [Step("t1", "v_fail") EXCEPT !.retries = 2, !.timeout_s = 1, !.on_error = "continue"],
           [Step("t2", "odd") EXCEPT !.timeout_s = 1] >>,
        "", <<>>),
    FlowAction("T_retry", "api",
        << [Step("r1", "F_bad") EXCEPT !.retries = 1, !.on_error = "continue"],
           [Step("r2", "F_when") EXCEPT !.retries = 1, !.on_error = "continue"],
           [Step("r3", "F_esc") EXCEPT !.retries = 1] >>,
        "", <<>>),
    \* a recursion that is retried and continued past
    FlowAction("T_deep", "api",
        << [Step("dp", "F_ping") EXCEPT !.retries = 1, !.on_error = "continue"],
           Step("fin", "v_ok") >>,
        "", <<>>),
    \* test_flow_on_error_continue_and_fallback, and the modes that end the flow
    FlowAction("T_fb", "api",
        << [Step("try", "v_fail") EXCEPT !.on_error = "continue"],
           [Step("fb", "v_ok") EXCEPT !.when = CondEq(Path("steps", "try", "ok"), Bool(FALSE)),
                                      !.retries = 2] >>,
        "fb", <<>>),
    FlowAction("T_unset", "api", << Step("h1", "v_fail"), Step("h2", "v_ok") >>, "", <<>>),
    FlowAction("T_stop", "api",
        << [Step("h1", "v_fail") EXCEPT !.on_error = "stop"], Step("h2", "v_ok") >>, "h2", <<>>),
    FlowAction("T_ret", "api",
        << [Step("h1", "v_fail2") EXCEPT !.on_error = "return", !.retries = 1],
           Step("h2", "v_ok") >>,
        "", <<>>),
    \* test_flow_set_vars, with a third step that renders its input from vars
    ValueAction("v_vars", "api", TRUE, 200, Path("vars", "answer", "")),
    ValueAction("v_in", "api", TRUE, 200, Path("input", "", "")),
    FlowAction("T_set", "api",
        << [Step("a", "v_ok") EXCEPT !.set = <<Assign("answer", Path("steps", "a", "data"))>>],
           [Step("b", "v_vars") EXCEPT !.when = CondExists(Path("vars", "answer", ""))],
           [Step("c", "v_in") EXCEPT !.when = CondEq(Path("steps", "b", "data"), Str("a")),
                                     !.input = Path("vars", "answer", "")] >>,
        "", <<>>),
    \* the same two-step flow as both members of a parallel group
    ValueAction("v_r1", "api", TRUE, 200, Path("steps", "w1", "data")),
    FlowAction("F_two", "api", << Step("w1", "v_in"), Step("w2", "v_r1") >>, "", <<>>),
    FlowAction("T_fan", "api",
        << [ParStep("a1", "F_two") EXCEPT !.input = Const(Str("x"))],
           [ParStep("a2", "F_two") EXCEPT !.input = Const(Str("y"))] >>,
        "a1", <<>>),
    \* gates that are false: the literal false, and a comparison
    FlowAction("T_lit", "api",
        << [Step("f0", "v_ok") EXCEPT !.when = CondExists(Path("steps", "f0", "")),
                                      !.set = <<Assign("s0", Path("steps", "f0", "skipped"))>>],
           [Step("f1", "v_ok") EXCEPT !.when = CondLit(FALSE)],
           [ParStep("f2", "v_ok") EXCEPT !.when = CondLit(FALSE)],
           [ParStep("f3", "v_ok") EXCEPT !.when = CondEq(Path("vars", "s0", ""), Bool(FALSE))] >>,
        "", <<>>),
    \* flows a caller can build that the loader would refuse
    FlowAction("T_empty", "api", <<>>, "", <<>>),
    FlowAction("T_miss", "api", << Step("z", "v_ok") >>, "zz", <<>>),
    \* nested deadlines: a looser, a tighter and no window under a parent deadline
    FlowAction("F_in", "api",
        << [Step("i1", "v_ok") EXCEPT !.timeout_s = 2],
           [Step("i2", "v_fail") EXCEPT !.timeout_s = 1, !.retries = 1, !.on_error = "continue"],
           Step("i3", "v_ok") >>,
        "", <<>>),
    FlowAction("T_dl", "api",
        << [Step("o1", "F_in") EXCEPT !.timeout_s = 2, !.on_error = "continue"],
           [Step("o2", "F_in") EXCEPT !.timeout_s = 1] >>,
        "", <<>>),
    \* a failing step whose set reads its own result and the variable set before
    FlowAction("T_sf", "api",
        << [Step("a", "v_fail") EXCEPT !.set = << Assign("e", Path("steps", "a", "status")),
                                                  Assign("e2", Path("vars", "e", "")) >>],
           Step("b", "v_ok") >>,
        "", <<Assign("e", Const(Str("0")))>>),
    \* a group that its second member ends, every member with a set
    FlowAction("T_cut", "api",
        << [ParStep("a", "v_ok") EXCEPT !.set = <<Assign("va", Path("steps", "a", "data"))>>],
           [ParStep("b", "v_fail") EXCEPT !.set = <<Assign("vb", Path("steps", "b", "status"))>>],
           [ParStep("c", "v_ok") EXCEPT !.set = <<Assign("vc", Path("steps", "c", "data"))>>],
           [ParStep("d", "v_ok") EXCEPT !.when = CondExists(Path("steps", "zz", "")),
                                        !.set = <<Assign("vd", Const(Str("d")))>>] >>,
        "", <<>>),
    \* a group whose second member has a when that cannot be evaluated
    FlowAction("T_gate", "api",
        << [Step("s0", "v_pub") EXCEPT !.set = <<Assign("v0", Path("steps", "s0", "data"))>>],
           [ParStep("g1", "v_ok") EXCEPT !.set = <<Assign("v1", Const(Str("1")))>>],
           [ParStep("g2", "v_ok") EXCEPT !.when = CondBogus, !.on_error = "continue"],
           ParStep("g3", "v_ok") >>,
        "", <<>>),
    FlowAction("T_gin", "api", << [Step("n", "T_gate") EXCEPT !.on_error = "continue"] >>, "", <<>>),
    \* a member's flow with a group of its own that runs a nested flow, next to
    \* a member that runs the same nested flow
    FlowAction("F_grp", "api", << ParStep("q1", "F_w"), Step("r", "v_read") >>, "", <<>>),
    FlowAction("T_leak", "api", << ParStep("n1", "F_grp"), ParStep("n2", "F_w") >>, "n1", <<>>),
    ValueAction("v_list", "api", TRUE, 200, Const(Items("1")))
} \cup {ChainFlow(n) : n \in 1 .. ChainLen}
  \cup {PairFlow(SeqName(n), n, FALSE) : n \in 1 .. Len(PairMembers)}
  \cup {PairFlow(ParName(n), n, TRUE) : n \in 1 .. Len(PairMembers)}

Roots == {"T_race", "T_nest", "T_fail", "T_cont", "T_esc_seq", "T_esc_par",
          "T_admin", "T_none", "T_retry", "T_time", "F_ping",
          "L1", "T_deep", "T_fb", "T_unset", "T_stop", "T_ret", "T_set", "T_lit",
          "T_empty", "T_miss", "T_dl", "T_fan", "F_bad", "F_when", "T_sf",
          "T_cut", "T_gate", "T_gin", "T_leak"} \cup SeqForms

ActionNames == {a.name : a \in Actions}
registry_get(name) == CHOOSE a \in Actions : a.name = name

\* the payload the caller passes as input_data
CallInput == Str("in")


(***************************************************************************)
(* Frames.  One record shape serves both kinds of activation.               *)
(*   flow frame: act is the flow action, input/S/V/depth/deadline its ctx,  *)
(*     i the loop index, last/cur the local results, j/k/snapS/snapV/toRun  *)
(*     the parallel group being processed.                                  *)
(*   step frame: act is the flow whose step number idx runs, S/V the dicts  *)
(*     put in child_extra (the snapshots when par), sinput the rendered     *)
(*     input, attempt the retry loop's counter, lastExc the kind of         *)
(*     last_error ("" is None).                                             *)
(* startS/startV remember the contents of the flow's steps/vars dicts when  *)
(* the group started, seenS/seenV what a step frame's last read of its      *)
(* context saw, gated the members whose `when` has been evaluated for the   *)
(* group, calls the number of execute_action calls a step frame has made,   *)
(* calledAt the clock at the last of them, prepAt the clock read by         *)
(* _step_deadline_ts (history only: nothing branches on them).              *)
(***************************************************************************)
NoDeadline == 0 - 1

FlowFrame(act, input, S, V, depth, deadline) ==
    [kind |-> "flow", act |-> act, input |-> input, S |-> S, V |-> V, depth |-> depth,
     deadline |-> deadline, pc |-> "enter", i |-> 1, last |-> NoResult, cur |-> NoResult,
     j |-> 1, k |-> 1, snapS |-> 0, snapV |-> 0, toRun |-> {},
     idx |-> 0, par |-> FALSE, sinput |-> None, attempt |-> 0, lastExc |-> "", caught |-> FALSE,
     startS |-> EmptyDict, startV |-> EmptyDict, seenS |-> EmptyDict, seenV |-> EmptyDict,
     gated |-> <<>>, calls |-> 0, calledAt |-> 0, prepAt |-> 0]

StepFrame(f, idx, S, V, par) ==
    [kind |-> "step", act |-> f.act, input |-> f.input, S |-> S, V |-> V, depth |-> f.depth,
     deadline |-> f.deadline, pc |-> "prep", i |-> 1, last |-> NoResult, cur |-> NoResult,
     j |-> 1, k |-> 1, snapS |-> 0, snapV |-> 0, toRun |-> {},
     idx |-> idx, par |-> par, sinput |-> None, attempt |-> 0, lastExc |-> "", caught |-> FALSE,
     startS |-> f.startS, startV |-> f.startV, seenS |-> EmptyDict, seenV |-> EmptyDict,
     gated |-> <<>>, calls |-> 0, calledAt |-> 0, prepAt |-> 0]

FreeThread == [state |-> "free", stack |-> <<>>, parent |-> 0, member |-> 0, out |-> NoOutcome]

ThreadIds == 1 .. MaxThreads
MainThread == 1

\* The outcome of a call of execute_action with the final contents of the
\* top-level flow's steps and vars dicts, and the invocations its steps made
\* (which action, by which step, in which pass of the retry loop).
NoFinal == [o |-> NoOutcome, steps |-> EmptyDict, vars |-> EmptyDict, used |-> {}]

Stack(t) == threads[t].stack
Top(t) == Stack(t)[Len(Stack(t))]
AtPc(t, kind, pc) ==
    /\ threads[t].state = "run"
    /\ Stack(t) # <<>>
    /\ Top(t).kind = kind
    /\ Top(t).pc = pc

Pop(stack) == SubSeq(stack, 1, Len(stack) - 1)
WithTop(stack, f) == [stack EXCEPT ![Len(stack)] = f]

FlowOf(f) == registry_get(f.act).flow
StepsOf(f) == FlowOf(f).steps
StepAt(f, n) == StepsOf(f)[n]

Put(h, ref, key, value) == [h EXCEPT ![ref] = (key :> value) @@ @]

\* A thread goes on with this stack.
Stay(stack) == [stack |-> stack, fin |-> FALSE, out |-> NoOutcome]

\* (a slip: the caught exception is reported as a bad gateway)
CaughtResult_502(o) == IF o.raised THEN Result(FALSE, 502, ErrorData(o.exc)) ELSE o.res

\* The except clause of _run_step's retry loop: a raised exception becomes a
\* 500 result and is remembered in last_error.
CaughtResult(o) == IF o.raised THEN Result(FALSE, 500, ErrorData(o.exc)) ELSE o.res

\* An activation of _execute_flow ends with outcome o; rest is the stack below it.
\* Its caller is execute_action inside the try of a step frame, or the top-level
\* caller of execute_action.
FlowExit(rest, o) ==
    IF rest = <<>> THEN [stack |-> <<>>, fin |-> TRUE, out |-> o]
    ELSE LET sf == rest[Len(rest)]
         IN  Stay(WithTop(rest, [sf EXCEPT !.pc = "after",
                                           !.cur = CaughtResult(o),
                                           !.caught = o.raised,
                                           !.lastExc = IF o.raised THEN o.exc ELSE @]))

\* An activation of _run_step ends with outcome o.  Its caller is the sequential
\* branch of _execute_flow (which has no handler: an exception leaves the flow
\* too), or the worker thread of a parallel group (the future keeps o).
StepExit(rest, o) ==
    IF rest = <<>> THEN [stack |-> <<>>, fin |-> TRUE, out |-> o]
    ELSE IF o.raised THEN FlowExit(Pop(rest), o)
    ELSE Stay(WithTop(rest, [rest[Len(rest)] EXCEPT !.pc = "record", !.cur = o.res]))

RootFrame == threads[MainThread].stack[1]
Final(o, h) ==
    [o |-> o,
     steps |-> IF RootFrame.S = 0 THEN EmptyDict ELSE h[RootFrame.S],
     vars |-> IF RootFrame.V = 0 THEN EmptyDict ELSE h[RootFrame.V],
     used |-> {[use |-> c.use, step |-> c.step, attempt |-> c.attempt] : c \in invoked}]

\* Thread t moves on as x says, with the heap h and other threads as in thr.
Commit(t, h, thr, x) ==
    /\ heap' = h
    /\ threads' = [thr EXCEPT ![t].stack = x.stack,
                              ![t].state = IF x.fin THEN "done" ELSE "run",
                              ![t].out = x.out]
    /\ outcome' = IF x.fin /\ t = MainThread THEN Final(x.out, h) ELSE outcome

\* _apply_flow_set: each key is rendered against the live context, in order.
RECURSIVE apply_flow_set(_, _, _, _, _)
apply_flow_set(mapping, input, S, V, h) ==
    IF mapping = <<>> THEN h
    ELSE LET e == Head(mapping)
             v == render_value(e.tpl, input, h[S], h[V])
         IN  apply_flow_set(Tail(mapping), input, S, V, Put(h, V, e.key, v))

\* render_value(flow.vars, ctx) renders the whole dict, then each key is stored.
RECURSIVE StoreVars(_, _, _, _, _)
StoreVars(mapping, input, S, V, h0) ==
    IF mapping = <<>> THEN h0
    ELSE LET e == mapping[Len(mapping)]
             before == StoreVars(Pop(mapping), input, S, V, h0)
         IN  Put(before, V, e.key, render_value(e.tpl, input, h0[S], h0[V]))


(***************************************************************************)
(* _execute_flow, entry: the depth check, _ensure_dict for steps and vars,  *)
(* and the flow-level vars.                                                 *)
(***************************************************************************)
EnterFlow(t) ==
    /\ AtPc(t, "flow", "enter")
    /\ LET f == Top(t)
           S == IF f.S = 0 THEN Len(heap) + 1 ELSE f.S
           h1 == IF f.S = 0 THEN Append(heap, EmptyDict) ELSE heap
           V == IF f.V = 0 THEN Len(h1) + 1 ELSE f.V
           h2 == IF f.V = 0 THEN Append(h1, EmptyDict) ELSE h1
           h3 == StoreVars(FlowOf(f).vars, f.input, S, V, h2)
       IN  IF f.depth > FlowDepthLimit
           THEN Commit(t, heap, threads, FlowExit(Pop(Stack(t)), Raised("depth")))
           ELSE IF ActionNames = {}
           THEN Commit(t, heap, threads, FlowExit(Pop(Stack(t)), Raised("no registry")))
           ELSE Commit(t, h3, threads,
                       Stay(WithTop(Stack(t), [f EXCEPT !.S = S, !.V = V, !.pc = "loop"])))
    /\ UNCHANGED <<calc, root, run, first, invoked, now>>

\* (a slip: the last result wins over return_step)
FlowResult_lastFirst(f, h) ==
    IF f.last # NoResult THEN f.last
    ELSE IF FlowOf(f).return_step # "" /\ FlowOf(f).return_step \in DOMAIN h[f.S]
         THEN h[f.S][FlowOf(f).return_step]
         ELSE Result(TRUE, 200, None)

\* The end of the while loop: return_step, else the last result, else the default.
FlowResult(f, h) ==
    LET rs == FlowOf(f).return_step
    IN  IF rs # ""
        THEN IF rs \in DOMAIN h[f.S] THEN h[f.S][rs]
             ELSE Result(FALSE, 500, ErrorData("flow return_step missing"))
        ELSE IF f.last = NoResult THEN Result(TRUE, 200, None)
        ELSE f.last

FlowFinish(t) ==
    /\ AtPc(t, "flow", "loop")
    /\ Top(t).i > Len(StepsOf(Top(t)))
    /\ Commit(t, heap, threads, FlowExit(Pop(Stack(t)), Returned(FlowResult(Top(t), heap))))
    /\ UNCHANGED <<calc, root, run, first, invoked, now>>

\* (a slip: an unset on_error treated like "continue")
OnErrorContinues_unsetContinues(step) == step.on_error # "stop" /\ step.on_error # "return"

\* (s.on_error or "stop").lower() == "continue"
OnErrorContinues(step) == step.on_error = "continue"

\* (a slip: set is applied before the result is recorded)
StoreResult_setFirst(f, step, res, h) ==
    Put(apply_flow_set(step.set, f.input, f.S, f.V, h), f.S, step.id, res)

\* steps_out[id] = result; last = result; _apply_flow_set; then the on_error
\* decision.  Gives the heap and whether the flow returns the failing result.
StoreResult(f, step, res, h) ==
    apply_flow_set(step.set, f.input, f.S, f.V, Put(h, f.S, step.id, res))

\* (a slip: only on_error "return" ends the flow)
EndsFlow_returnOnly(step, res) == ~res.ok /\ step.on_error = "return"

\* if not result.get("ok"): continue the loop, or return the failing result
EndsFlow(step, res) == ~res.ok /\ ~OnErrorContinues(step)

(***************************************************************************)
(* A sequential step: the gate against the live context, then either the    *)
(* skip result or a call of _run_step(step).                                *)
(***************************************************************************)
SeqStep(t) ==
    /\ AtPc(t, "flow", "loop")
    /\ LET f == Top(t)
       IN  /\ f.i <= Len(StepsOf(f))
           /\ ~StepAt(f, f.i).parallel
           /\ LET step == StepAt(f, f.i)
                  gate == step_should_run(step, f.input, heap[f.S], heap[f.V])
              IN  CASE gate = "raise" ->
                         Commit(t, heap, threads, FlowExit(Pop(Stack(t)), Raised("when")))
                    [] gate = "skip" ->
                         Commit(t, StoreResult(f, step, SkippedResult, heap), threads,
                                Stay(WithTop(Stack(t),
                                     [f EXCEPT !.last = SkippedResult, !.i = @ + 1])))
                    [] OTHER ->
                         Commit(t, heap, threads,
                                Stay(Append(WithTop(Stack(t), [f EXCEPT !.pc = "run"]),
                                            StepFrame(f, f.i, f.S, f.V, FALSE))))
    /\ UNCHANGED <<calc, root, run, first, invoked, now>>

\* After _run_step returned in the sequential branch.
Record(t) ==
    /\ AtPc(t, "flow", "record")
    /\ LET f == Top(t)
           step == StepAt(f, f.i)
           h == StoreResult(f, step, f.cur, heap)
       IN  IF EndsFlow(step, f.cur)
           THEN Commit(t, h, threads, FlowExit(Pop(Stack(t)), Returned(f.cur)))
           ELSE Commit(t, h, threads,
                       Stay(WithTop(Stack(t),
                            [f EXCEPT !.last = f.cur, !.i = @ + 1, !.pc = "loop"])))
    /\ UNCHANGED <<calc, root, run, first, invoked, now>>

(***************************************************************************)
(* _run_step.                                                               *)
(***************************************************************************)
\* (a slip: the comparison turned around)
AuthEscalates_swapped(sub, parent) == auth_level(parent.auth) > auth_level(sub.auth)

\* Prevent privilege escalation: the action's level above the flow's.
AuthEscalates(sub, parent) == auth_level(sub.auth) > auth_level(parent.auth)

\* (a slip: the step's own window replaces the parent's deadline)
step_deadline_ts_own(timeout_s, parent_deadline, clock) ==
    IF timeout_s = 0 THEN parent_deadline ELSE clock + timeout_s

\* _step_deadline_ts: min(parent deadline, now + timeout_s), or the parent's.
step_deadline_ts(timeout_s, parent_deadline, clock) ==
    IF timeout_s = 0 THEN parent_deadline
    ELSE IF parent_deadline = NoDeadline THEN clock + timeout_s
    ELSE IF parent_deadline < clock + timeout_s THEN parent_deadline
    ELSE clock + timeout_s

\* (a slip: the deadline itself still counts as in time)
DeadlinePassed_strict(deadline, clock) == deadline # NoDeadline /\ clock > deadline

\* deadline_ts is not None and time.monotonic() >= deadline_ts
DeadlinePassed(deadline, clock) == deadline # NoDeadline /\ clock >= deadline

\* From the registry lookup to the start of the retry loop.  The step's input
\* is rendered before the loop's try block: what the rendering raises leaves
\* _run_step.
StepPrep(t) ==
    /\ AtPc(t, "step", "prep")
    /\ LET f == Top(t)
           step == StepAt(f, f.idx)
       IN  IF step.use \notin ActionNames
           THEN Commit(t, heap, threads, StepExit(Pop(Stack(t)), Raised("unknown action")))
           ELSE IF AuthEscalates(registry_get(step.use), registry_get(f.act))
           THEN Commit(t, heap, threads, StepExit(Pop(Stack(t)), Raised("auth")))
           ELSE IF RenderRaises(step.input, f.input, heap[f.S], heap[f.V])
           THEN Commit(t, heap, threads, StepExit(Pop(Stack(t)), Raised("ValueError")))
           ELSE Commit(t, heap, threads,
                  Stay(WithTop(Stack(t),
                    [f EXCEPT !.sinput = IF step.input = NoTemplate THEN f.input
                                         ELSE render_value(step.input, f.input, heap[f.S], heap[f.V]),
                              !.seenS = heap[f.S], !.seenV = heap[f.V],
                              !.deadline = step_deadline_ts(step.timeout_s, f.deadline, now),
                              !.prepAt = now,
                              !.attempt = 0,
                              !.pc = "attempt"])))
    /\ UNCHANGED <<calc, root, run, first, invoked, now>>

\* _execute_value in the context execute_action builds from child_extra.
execute_value(value, input, stepsMap, varsMap) ==
    Result(value.ok, value.status, render_value(value.data, input, stepsMap, varsMap))

\* execute_action on an action that is not a flow: the registry of this model
\* holds value actions and one action of a kind execute_action does not know
\* (the http, llm and db kinds are collaborators outside the model).
execute_action(sub, input, stepsMap, varsMap) ==
    CASE sub.kind = "value" ->
            IF sub.value = NoValue THEN Raised("missing config")
            ELSE Returned(execute_value(sub.value, input, stepsMap, varsMap))
      [] OTHER -> Raised("unknown kind")

\* One pass of the retry loop up to the call of execute_action: the deadline
\* test, then the call.  A flow action starts a nested _execute_flow on the
\* dicts of child_extra; any other action runs here, and what it raises is
\* caught by the loop's except clause.
StepAttempt(t) ==
    /\ AtPc(t, "step", "attempt")
    /\ LET f == Top(t)
           step == StepAt(f, f.idx)
           sub == registry_get(step.use)
           o == execute_action(sub, f.sinput, heap[f.S], heap[f.V])
       IN  IF DeadlinePassed(f.deadline, now)
           THEN /\ Commit(t, heap, threads, StepExit(Pop(Stack(t)), Returned(TimeoutResult)))
                /\ invoked' = invoked
           ELSE /\ invoked' = invoked \cup {[flow |-> f.act, use |-> step.use,
                                                step |-> step.id, attempt |-> f.attempt]}
                /\ IF sub.kind = "flow" /\ sub.flow # NoFlow
                   THEN Commit(t, heap, threads,
                          Stay(Append(WithTop(Stack(t), [f EXCEPT !.pc = "called",
                                                                  !.calls = @ + 1,
                                                                  !.calledAt = now]),
                                      FlowFrame(step.use, f.sinput, f.S, f.V,
                                                f.depth + 1, f.deadline))))
                   ELSE Commit(t, heap, threads,
                          Stay(WithTop(Stack(t),
                            [f EXCEPT !.cur = CaughtResult(IF sub.kind = "flow"
                                                           THEN Raised("missing config") ELSE o),
                                      !.lastExc = IF sub.kind = "flow" THEN "missing config"
                                                  ELSE IF o.raised THEN o.exc ELSE @,
                                      !.caught = (sub.kind = "flow" \/ o.raised),
                                      !.seenS = heap[f.S], !.seenV = heap[f.V],
                                      !.calls = @ + 1, !.calledAt = now,
                                      !.pc = "after"])))
    /\ UNCHANGED <<calc, root, run, first, now>>

\* (a slip: one attempt too many)
MayRetry_inclusive(attempt, retries) == attempt <= retries

\* if attempt < int(step.retries): _retry_sleep(attempt); continue
MayRetry(attempt, retries) == attempt < retries

\* The rest of the pass: return an ok result, retry, or return the last failure.
StepAfter(t) ==
    /\ AtPc(t, "step", "after")
    /\ LET f == Top(t)
           step == StepAt(f, f.idx)
       IN  IF f.cur.ok
           THEN Commit(t, heap, threads, StepExit(Pop(Stack(t)), Returned(f.cur)))
           ELSE IF MayRetry(f.attempt, step.retries)
           THEN Commit(t, heap, threads,
                       Stay(WithTop(Stack(t), [f EXCEPT !.attempt = @ + 1, !.pc = "attempt"])))
           ELSE IF f.lastExc # "" /\ DeadlinePassed(f.deadline, now)
           THEN Commit(t, heap, threads, StepExit(Pop(Stack(t)), Returned(TimeoutResult)))
           ELSE Commit(t, heap, threads, StepExit(Pop(Stack(t)), Returned(f.cur)))
    /\ UNCHANGED <<calc, root, run, first, invoked, now>>


(***************************************************************************)
(* A parallel group: the contiguous parallel steps from index i, snapshots  *)
(* of steps and vars, the gates against the snapshots, one worker thread    *)
(* per member to run, the join, and the merge in declared order.            *)
(***************************************************************************)
RECURSIVE GroupEnd(_, _)
GroupEnd(steps, n) ==
    IF n <= Len(steps) /\ steps[n].parallel THEN GroupEnd(steps, n + 1) ELSE n

GroupStart(t) ==
    /\ AtPc(t, "flow", "loop")
    /\ LET f == Top(t)
       IN  /\ f.i <= Len(StepsOf(f))
           /\ StepAt(f, f.i).parallel
           /\ Commit(t, Append(Append(heap, heap[f.S]), heap[f.V]), threads,
                     Stay(WithTop(Stack(t),
                          [f EXCEPT !.j = GroupEnd(StepsOf(f), f.i),
                                    !.k = f.i,
                                    !.snapS = Len(heap) + 1,
                                    !.snapV = Len(heap) + 2,
                                    !.toRun = {},
                                    !.startS = heap[f.S],
                                    !.startV = heap[f.V],
                                    !.gated = <<>>,
                                    !.pc = "gate"])))
    /\ UNCHANGED <<calc, root, run, first, invoked, now>>

\* (a slip: the gate reads the live dict, as the sequential branch does)
GateSteps_live(f, h) == h[f.S]

\* The dicts the gate of a group member is evaluated against (cond_ctx).
GateSteps(f, h) == h[f.snapS]
GateVars(f, h) == h[f.snapV]

\* for s in group: _step_should_run(s, cond_ctx), one member per step.
GateMember(t) ==
    /\ AtPc(t, "flow", "gate")
    /\ LET f == Top(t)
           gate == step_should_run(StepAt(f, f.k), f.input, GateSteps(f, heap), GateVars(f, heap))
       IN  IF gate = "raise"
           THEN Commit(t, heap, threads, FlowExit(Pop(Stack(t)), Raised("when")))
           ELSE Commit(t, heap, threads,
                       Stay(WithTop(Stack(t),
                            [f EXCEPT !.toRun = IF gate = "run" THEN @ \cup {f.k} ELSE @,
                                      !.k = @ + 1,
                                      !.gated = Append(@, f.k),
                                      !.pc = IF f.k + 1 = f.j THEN "submit" ELSE "gate"])))
    /\ UNCHANGED <<calc, root, run, first, invoked, now>>

FreeIds == {u \in ThreadIds : threads[u].state = "free"}
Rank(x, set) == Cardinality({y \in set : y <= x})
MemberOfRank(r, set) == CHOOSE m \in set : Rank(m, set) = r
Kids(t) == {u \in ThreadIds : threads[u].state # "free" /\ threads[u].parent = t}
KidOf(t, member) == CHOOSE u \in Kids(t) : threads[u].member = member
FreeKids(t) == [u \in ThreadIds |-> IF u \in Kids(t) THEN FreeThread ELSE threads[u]]

\* ex.submit(_run_step, s, steps_snapshot=..., vars_snapshot=...) for s in to_run.
Submit(t) ==
    /\ AtPc(t, "flow", "submit")
    /\ LET f == Top(t)
           n == Cardinality(f.toRun)
       IN  IF n = 0
           THEN Commit(t, heap, threads,
                       Stay(WithTop(Stack(t), [f EXCEPT !.k = f.i, !.pc = "merge"])))
           ELSE /\ Cardinality(FreeIds) >= n
                /\ Commit(t, heap,
                     [u \in ThreadIds |->
                        IF u \in FreeIds /\ Rank(u, FreeIds) <= n
                        THEN LET m == MemberOfRank(Rank(u, FreeIds), f.toRun)
                             IN  [state |-> "run",
                                  stack |-> <<StepFrame(f, m, f.snapS, f.snapV, TRUE)>>,
                                  parent |-> t, member |-> m, out |-> NoOutcome]
                        ELSE threads[u]],
                     Stay(WithTop(Stack(t), [f EXCEPT !.pc = "wait"])))
    /\ UNCHANGED <<calc, root, run, first, invoked, now>>

\* Leaving the `with ThreadPoolExecutor` block waits for every worker.
Join(t) ==
    /\ AtPc(t, "flow", "wait")
    /\ \A u \in Kids(t) : threads[u].state = "done"
    /\ Commit(t, heap, threads,
              Stay(WithTop(Stack(t), [Top(t) EXCEPT !.k = Top(t).i, !.pc = "merge"])))
    /\ UNCHANGED <<calc, root, run, first, invoked, now>>

\* futures[s.id].result() with its except clause, or the preset skip result.
MemberResult(t, f, member) ==
    IF member \in f.toRun THEN CaughtResult(threads[KidOf(t, member)].out)
    ELSE SkippedResult

\* One pass of the merge loop.
MergeMember(t) ==
    /\ AtPc(t, "flow", "merge")
    /\ LET f == Top(t)
           step == StepAt(f, f.k)
           res == MemberResult(t, f, f.k)
           h == StoreResult(f, step, res, heap)
       IN  IF EndsFlow(step, res)
           THEN Commit(t, h, FreeKids(t), FlowExit(Pop(Stack(t)), Returned(res)))
           ELSE IF f.k + 1 = f.j
           THEN Commit(t, h, FreeKids(t),
                       Stay(WithTop(Stack(t),
                            [f EXCEPT !.last = res, !.i = f.j, !.pc = "loop"])))
           ELSE Commit(t, h, threads,
                       Stay(WithTop(Stack(t), [f EXCEPT !.last = res, !.k = @ + 1])))
    /\ UNCHANGED <<calc, root, run, first, invoked, now>>

(***************************************************************************)
(* The clock.  Time is read only to set and to test deadlines, so it needs  *)
(* to advance only while some activation holds a deadline.                  *)
(***************************************************************************)
DeadlineHeld ==
    \E t \in ThreadIds : \E n \in 1 .. Len(Stack(t)) : Stack(t)[n].deadline # NoDeadline

\* No pure-function call is being checked while a flow runs.
NoCalc == [fn |-> "none"]

Tick ==
    /\ now < MaxClock
    /\ DeadlineHeld
    /\ now' = now + 1
    /\ UNCHANGED <<calc, root, run, first, heap, threads, outcome, invoked>>

(***************************************************************************)
(* The caller: execute_action(root, input_data=CallInput,                   *)
(* extra={"actions": registry}), and the same call once more.               *)
(***************************************************************************)
StartCall(name) ==
    [u \in ThreadIds |->
        IF u = MainThread
        THEN [state |-> "run",
              stack |-> <<FlowFrame(name, CallInput, 0, 0, 0, NoDeadline)>>,
              parent |-> 0, member |-> 0, out |-> NoOutcome]
        ELSE FreeThread]

Init ==
    /\ root \in Roots
    /\ run = 1
    /\ first = NoFinal
    /\ heap = <<>>
    /\ threads = StartCall(root)
    /\ outcome = NoFinal
    /\ invoked = {}
    /\ now = 0
    /\ calc = NoCalc

Done == threads[MainThread].state = "done"

Rerun ==
    /\ Done
    /\ run = 1
    /\ run' = 2
    /\ first' = outcome
    /\ heap' = <<>>
    /\ threads' = StartCall(root)
    /\ outcome' = NoFinal
    /\ invoked' = {}
    /\ now' = 0
    /\ UNCHANGED <<calc, root>>

\* The caller then calls the same flow with its step p as a parallel group.
RunTwin ==
    /\ Done
    /\ run = 1
    /\ root \in SeqForms
    /\ run' = 3
    /\ root' = Twin(root)
    /\ first' = outcome
    /\ heap' = <<>>
    /\ threads' = StartCall(Twin(root))
    /\ outcome' = NoFinal
    /\ invoked' = {}
    /\ now' = 0
    /\ UNCHANGED calc

Next ==
    \/ \E t \in ThreadIds : EnterFlow(t)
    \/ \E t \in ThreadIds : FlowFinish(t)
    \/ \E t \in ThreadIds : SeqStep(t)
    \/ \E t \in ThreadIds : Record(t)
    \/ \E t \in ThreadIds : StepPrep(t)
    \/ \E t \in ThreadIds : StepAttempt(t)
    \/ \E t \in ThreadIds : StepAfter(t)
    \/ \E t \in ThreadIds : GroupStart(t)
    \/ \E t \in ThreadIds : GateMember(t)
    \/ \E t \in ThreadIds : Submit(t)
    \/ \E t \in ThreadIds : Join(t)
    \/ \E t \in ThreadIds : MergeMember(t)
    \/ Tick
    \/ Rerun
    \/ RunTwin

Spec == Init /\ [][Next]_vars


(***************************************************************************)
(* Vocabulary of the properties.                                            *)
(***************************************************************************)
\* every activation on some thread's stack, with its thread and position
FramesAt ==
    UNION {{[t |-> t, n |-> n] : n \in 1 .. Len(Stack(t))} : t \in ThreadIds}
FrameOf(a) == Stack(a.t)[a.n]
FlowFrames == {a \in FramesAt : FrameOf(a).kind = "flow"}
StepFrames == {a \in FramesAt : FrameOf(a).kind = "step"}

\* none < api < admin, stated without auth_level
AuthLeq(a, b) == a = b \/ a = "none" \/ b = "admin"
AuthOf(name) == registry_get(name).auth

HasParallelGroup(name) ==
    \E n \in 1 .. Len(registry_get(name).flow.steps) : registry_get(name).flow.steps[n].parallel

Min(set) == CHOOSE m \in set : \A x \in set : m <= x


(***************************************************************************)
(* C1.  Two calls of execute_action on the same flow with a parallel group  *)
(* end with the same result and the same final contents of the live steps   *)
(* and vars dicts, whatever the order in which the group's members ran in   *)
(* each call.                                                               *)
(***************************************************************************)
C1_SameOutcomeForEveryOrder ==
    (run = 2 /\ Done /\ HasParallelGroup(root)) => outcome = first

(***************************************************************************)
(* C2.  While a parallel group runs (its workers submitted, not yet         *)
(* joined), no step changes the dicts handed to the workers as steps and    *)
(* vars.                                                                    *)
(***************************************************************************)
C2_HandedDictsNeverWritten ==
    [][\A a \in FlowFrames :
          FrameOf(a).pc = "wait" =>
              /\ heap'[FrameOf(a).snapS] = heap[FrameOf(a).snapS]
              /\ heap'[FrameOf(a).snapV] = heap[FrameOf(a).snapV]]_vars

(***************************************************************************)
(* C3.  What a member of a parallel group reads is what the flow's steps    *)
(* and vars held when the group started: its rendered input, and the steps  *)
(* and vars its action saw.                                                 *)
(***************************************************************************)
C3_MemberSeesGroupStart ==
    \A a \in StepFrames :
        LET sf == FrameOf(a)
            step == StepAt(sf, sf.idx)
        IN  (sf.par /\ sf.pc # "prep") =>
                /\ sf.seenS = sf.startS
                /\ sf.seenV = sf.startV
                /\ sf.sinput = IF step.input = NoTemplate THEN sf.input
                               ELSE render_value(step.input, sf.input, sf.startS, sf.startV)

(***************************************************************************)
(* C4.  From the start of a parallel group until its last member has        *)
(* completed, the flow's live steps and vars dicts do not change; during    *)
(* the merge, the members from the merge cursor on have not been written.   *)
(***************************************************************************)
C4_LiveDictsFrozenUntilJoin ==
    [][\A a \in FlowFrames :
          LET f == FrameOf(a)
          IN  /\ f.pc \in {"gate", "submit", "wait"} =>
                    /\ heap'[f.S] = heap[f.S]
                    /\ heap'[f.V] = heap[f.V]
              /\ f.pc = "merge" =>
                    \A m \in f.k .. (f.j - 1) :
                        StepAt(f, m).id \in DOMAIN heap[f.S] =>
                            /\ StepAt(f, m).id \in DOMAIN f.startS
                            /\ heap[f.S][StepAt(f, m).id] = f.startS[StepAt(f, m).id]]_vars

(***************************************************************************)
(* C5.  In a parallel group every member's `when` is evaluated exactly      *)
(* once, in declared order, before any worker of the group exists, and the  *)
(* member runs iff its `when` holds of the steps/vars contents at group     *)
(* start.                                                                   *)
(***************************************************************************)
GateAtStart(f, m) == step_should_run(StepAt(f, m), f.input, f.startS, f.startV)

C5_GateOnceUpFrontOnSnapshot ==
    \A a \in FlowFrames :
        LET f == FrameOf(a)
        IN  /\ f.pc \in {"gate", "submit"} =>
                /\ Kids(a.t) = {}
                /\ f.gated = [n \in 1 .. (f.k - f.i) |-> f.i + n - 1]
                /\ \A m \in f.i .. (f.k - 1) : (m \in f.toRun) <=> (GateAtStart(f, m) = "run")
                /\ \A m \in f.toRun : m < f.k
            /\ f.pc \in {"wait", "merge"} =>
                /\ f.gated = [n \in 1 .. (f.j - f.i) |-> f.i + n - 1]
                /\ \A m \in f.i .. (f.j - 1) : (m \in f.toRun) <=> (GateAtStart(f, m) = "run")
                /\ {threads[u].member : u \in Kids(a.t)} = f.toRun

C5_Witness ==
    \E a \in FlowFrames :
        /\ FrameOf(a).act = "T_cont"
        /\ FrameOf(a).pc = "wait"
        /\ FrameOf(a).toRun = {1}
        /\ \E u \in Kids(a.t) : threads[u].state = "done" /\ ~threads[u].out.res.ok

(***************************************************************************)
(* C6.  After the join the merge leaves the flow exactly at the first       *)
(* member, in declared order, whose result is not ok and whose on_error is  *)
(* not "continue", and returns that member's result; when there is no such  *)
(* member the flow goes on after the group.                                 *)
(***************************************************************************)
Stoppers(t, f) ==
    {m \in f.i .. (f.j - 1) :
        ~MemberResult(t, f, m).ok /\ StepAt(f, m).on_error # "continue"}

C6_FirstStopperEndsFlow ==
    [][\A t \in ThreadIds :
          (AtPc(t, "flow", "merge") /\ threads'[t] # threads[t]) =>
              LET f == Top(t)
                  stop == Stoppers(t, f)
                  after == threads'[t]
                  left == after.state = "done" \/ Len(after.stack) < Len(Stack(t))
                  given == IF after.state = "done" THEN after.out.res
                           ELSE after.stack[Len(after.stack)].cur
              IN  /\ left <=> (stop # {} /\ f.k = Min(stop))
                  /\ left => ~after.out.raised /\ given = MemberResult(t, f, f.k)
                  /\ (~left /\ f.k + 1 = f.j) =>
                         /\ after.stack[Len(after.stack)].pc = "loop"
                         /\ after.stack[Len(after.stack)].i = f.j]_vars

C6_Witness ==
    /\ Done
    /\ root = "T_fail"
    /\ outcome.o = Returned(Result(FALSE, 502, Str("e2")))
    /\ DOMAIN outcome.steps = {"a", "b"}

(***************************************************************************)
(* C7.  Every action a step has invoked has an auth level at most that of   *)
(* the step's flow, and every flow activation was invoked from a flow whose *)
(* auth level is at least its own.                                          *)
(***************************************************************************)
C7_NoPrivilegeEscalation ==
    /\ \A c \in invoked : AuthLeq(AuthOf(c.use), AuthOf(c.flow))
    /\ \A a \in FlowFrames :
          a.n > 1 => AuthLeq(AuthOf(FrameOf(a).act), AuthOf(Stack(a.t)[a.n - 1].act))

C7_Witness ==
    /\ root = "T_admin"
    /\ (\E c \in invoked : c.flow = "T_admin" /\ c.use = "F_w")
    /\ \E a \in FlowFrames : a.n > 1 /\ FrameOf(a).act = "F_w" /\ FrameOf(a).pc = "record"

(***************************************************************************)
(* C8.  A step whose action has a strictly higher auth level than its flow  *)
(* never gets a step-level result: the steps dict of its flow holds nothing *)
(* under its id but a skip result, and the call whose flow reached such a   *)
(* step ends by raising.                                                    *)
(***************************************************************************)
Escalating(name) ==
    {n \in 1 .. Len(registry_get(name).flow.steps) :
        LET use == registry_get(name).flow.steps[n].use
        IN  use \in ActionNames /\ ~AuthLeq(AuthOf(use), AuthOf(name))}

C8_EscalationFailsWholeFlow ==
    /\ \A a \in FlowFrames :
          LET f == FrameOf(a)
          IN  \A n \in Escalating(f.act) :
                 (f.S # 0 /\ StepAt(f, n).id \in DOMAIN heap[f.S]) =>
                     heap[f.S][StepAt(f, n).id].skipped
    /\ \A n \in Escalating(root) :
          LET id == registry_get(root).flow.steps[n].id
          IN  id \in DOMAIN outcome.steps => outcome.steps[id].skipped

(***************************************************************************)
(* C9.  A flow with auth "api" that has a step using an action with auth    *)
(* "admin" ends by raising the auth error, and none of its steps has        *)
(* invoked an action.                                                       *)
(***************************************************************************)
ApiFlowWithAdminStep(name) ==
    /\ AuthOf(name) = "api"
    /\ \E n \in 1 .. Len(registry_get(name).flow.steps) :
          LET use == registry_get(name).flow.steps[n].use
          IN  use \in ActionNames /\ AuthOf(use) = "admin"

C9_FailsBeforeAnyAction ==
    /\ \A c \in invoked : ~ApiFlowWithAdminStep(c.flow)
    /\ (Done /\ ApiFlowWithAdminStep(root)) => outcome.o = Raised("auth")

(***************************************************************************)
(* C10.  Once an attempt of a step has ended in a configuration error       *)
(* (unknown action, invalid when, auth escalation, recursion limit), the    *)
(* step does not invoke its action again.                                   *)
(***************************************************************************)
ConfigurationErrors == {"unknown action", "when", "auth", "depth"}

C10_ConfigErrorNotRetried ==
    \A a \in StepFrames :
        FrameOf(a).lastExc \in ConfigurationErrors => FrameOf(a).pc # "called"

(***************************************************************************)
(* C11.  A call on the first flow of a chain of 25 flow invocations ends in *)
(* the recursion-limit error: raised to the caller, or as the data of the   *)
(* failing result the call returns.                                         *)
(***************************************************************************)
EndsInDepthError(o) ==
    \/ o = Raised("depth")
    \/ ~o.raised /\ ~o.res.ok /\ o.res.data = ErrorData("depth")

C11_Chain25Fails ==
    (Done /\ root = ChainName(1) /\ ChainLen = 25) => EndsInDepthError(outcome.o)

(***************************************************************************)
(* C12.  The recursion-limit error is never caught by a step (which would   *)
(* make it a {ok:false,status:500} step result to retry or to continue      *)
(* past), and a call in which it was raised ends by raising it.             *)
(***************************************************************************)
ExceedsDepth(name) == name \in {"F_ping", "T_deep"}

C12_DepthErrorReachesCaller ==
    /\ \A a \in StepFrames : FrameOf(a).lastExc # "depth"
    /\ (Done /\ ExceedsDepth(root)) => outcome.o = Raised("depth")

(***************************************************************************)
(* C13.  When a sequential step's final result is not ok: with on_error     *)
(* "continue" the result is stored under the step's id and the flow goes on *)
(* with the next step; with on_error unset, "stop" or "return" the flow     *)
(* ends at once, returning exactly that result, without invoking anything   *)
(* more, and no later step of the flow ever gets a result.                  *)
(***************************************************************************)
AllSequential(name) == ~HasParallelGroup(name)
RootSteps == registry_get(root).flow.steps

C13_SequentialOnError ==
    /\ [](\A n \in 1 .. Len(RootSteps) :
            (/\ Done
             /\ AllSequential(root)
             /\ RootSteps[n].id \in DOMAIN outcome.steps
             /\ ~outcome.steps[RootSteps[n].id].ok
             /\ RootSteps[n].on_error # "continue")
            => /\ outcome.o = Returned(outcome.steps[RootSteps[n].id])
               /\ \A m \in (n + 1) .. Len(RootSteps) :
                     RootSteps[m].id \notin DOMAIN outcome.steps)
    /\ [][\A t \in ThreadIds :
            (AtPc(t, "flow", "record") /\ ~Top(t).cur.ok /\ threads'[t] # threads[t]) =>
                LET f == Top(t)
                    step == StepAt(f, f.i)
                    after == threads'[t]
                    left == after.state = "done" \/ Len(after.stack) < Len(Stack(t))
                    given == IF after.state = "done" THEN after.out.res
                             ELSE after.stack[Len(after.stack)].cur
                IN  /\ step.on_error = "continue" =>
                          /\ ~left
                          /\ heap'[f.S][step.id] = f.cur
                          /\ after.stack[Len(after.stack)].pc = "loop"
                          /\ after.stack[Len(after.stack)].i = f.i + 1
                    /\ step.on_error \in {"", "stop", "return"} =>
                          /\ left
                          /\ ~after.out.raised
                          /\ given = f.cur
                          /\ invoked' = invoked]_vars

\* test_flow_on_error_continue_and_fallback: the fallback step supplied the result
C13_Witness ==
    /\ Done
    /\ root = "T_fb"
    /\ outcome.steps["try"] = Result(FALSE, 500, Str("e1"))
    /\ outcome.o = Returned(Result(TRUE, 200, Str("a")))

(***************************************************************************)
(* C14.  For consecutive sequential steps of a flow: when the later step's  *)
(* gate is evaluated, the flow's steps dict holds the earlier step's result *)
(* under its id and the vars dict holds its `set` keys; and the steps and   *)
(* vars the later step's rendering and action read hold them too.           *)
(***************************************************************************)
SetKeys(step) == {step.set[n].key : n \in 1 .. Len(step.set)}
Consecutive(f, n) == n > 1 /\ ~StepAt(f, n - 1).parallel /\ ~StepAt(f, n).parallel

C14_LaterStepObservesEarlier ==
    /\ \A a \in FlowFrames :
          LET f == FrameOf(a)
          IN  (f.pc = "loop" /\ f.i <= Len(StepsOf(f)) /\ Consecutive(f, f.i)) =>
                  /\ StepAt(f, f.i - 1).id \in DOMAIN heap[f.S]
                  /\ heap[f.S][StepAt(f, f.i - 1).id] = f.last
                  /\ SetKeys(StepAt(f, f.i - 1)) \subseteq DOMAIN heap[f.V]
    /\ \A a \in StepFrames :
          LET sf == FrameOf(a)
          IN  (~sf.par /\ sf.pc # "prep" /\ Consecutive(sf, sf.idx)) =>
                  /\ StepAt(sf, sf.idx - 1).id \in DOMAIN sf.seenS
                  /\ sf.seenS[StepAt(sf, sf.idx - 1).id] = Stack(a.t)[a.n - 1].last
                  /\ SetKeys(StepAt(sf, sf.idx - 1)) \subseteq DOMAIN sf.seenV

(***************************************************************************)
(* C15.  A step whose `when` the condition evaluator finds false (the       *)
(* literal false included) is skipped: its action is not invoked, the skip  *)
(* result is stored under its id, its `set` is applied and the flow moves   *)
(* to the next step; in a parallel group such a member is not run.          *)
(***************************************************************************)
EvaluatesFalse(step, input, stepsMap, varsMap) ==
    eval_condition(step.when, input, stepsMap, varsMap) = "false"

C15_FalseGateSkips ==
    [][\A t \in ThreadIds :
          /\ (/\ AtPc(t, "flow", "loop")
              /\ Top(t).i <= Len(StepsOf(Top(t)))
              /\ ~StepAt(Top(t), Top(t).i).parallel
              /\ EvaluatesFalse(StepAt(Top(t), Top(t).i), Top(t).input,
                                heap[Top(t).S], heap[Top(t).V])
              /\ threads'[t] # threads[t]) =>
                 LET f == Top(t)
                     step == StepAt(f, f.i)
                     after == threads'[t].stack
                 IN  /\ Len(after) = Len(Stack(t))
                     /\ after[Len(after)].pc = "loop"
                     /\ after[Len(after)].i = f.i + 1
                     /\ heap'[f.S][step.id] = SkippedResult
                     /\ SetKeys(step) \subseteq DOMAIN heap'[f.V]
                     /\ invoked' = invoked
          /\ (/\ AtPc(t, "flow", "gate")
              /\ EvaluatesFalse(StepAt(Top(t), Top(t).k), Top(t).input,
                                heap[Top(t).snapS], heap[Top(t).snapV])
              /\ threads'[t] # threads[t]) =>
                 Top(t).k \notin threads'[t].stack[Len(Stack(t))].toRun]_vars

(***************************************************************************)
(* C16.  A flow that leaves its loop with the step list exhausted returns:  *)
(* with return_step set, the result its steps dict holds under that id, or  *)
(* {ok:false,status:500} 'flow return_step missing' when it holds none;     *)
(* without return_step, the result of the last step of the list (executed   *)
(* or skipped), or {ok:true,status:200,data:null} when the list is empty.   *)
(***************************************************************************)
Exhausted(t) ==
    /\ AtPc(t, "flow", "loop")
    /\ Top(t).i > Len(StepsOf(Top(t)))

\* The step with which thread t's flow exhausts its step list: the frame
\* stays on the stack and its index moves past the last step.
Exhausts(t) ==
    /\ threads[t].state = "run"
    /\ Stack(t) # <<>>
    /\ Top(t).kind = "flow"
    /\ StepsOf(Top(t)) # <<>>
    /\ ~Exhausted(t)
    /\ threads'[t].state = "run"
    /\ Len(threads'[t].stack) = Len(Stack(t))
    /\ threads'[t].stack[Len(Stack(t))].pc = "loop"
    /\ threads'[t].stack[Len(Stack(t))].i > Len(StepsOf(Top(t)))

C16_ResultOfExhaustedFlow ==
    /\ [][\A t \in ThreadIds :
          (Exhausted(t) /\ threads'[t] # threads[t]) =>
              LET f == Top(t)
                  rs == FlowOf(f).return_step
                  after == threads'[t]
                  given == IF after.state = "done" THEN after.out.res
                           ELSE after.stack[Len(after.stack)].cur
              IN  /\ ~after.out.raised
                  /\ (rs # "" /\ rs \in DOMAIN heap[f.S]) => given = heap[f.S][rs]
                  /\ (rs # "" /\ rs \notin DOMAIN heap[f.S]) =>
                         given = Result(FALSE, 500, ErrorData("flow return_step missing"))
                  /\ (rs = "" /\ StepsOf(f) = <<>>) => given = Result(TRUE, 200, None)
                  /\ (rs = "" /\ StepsOf(f) # <<>>) => given = f.last]_vars
    /\ [][\A t \in ThreadIds :
            Exhausts(t) =>
                LET f == Top(t)
                    lastStep == StepAt(f, Len(StepsOf(f)))
                    after == threads'[t].stack[Len(Stack(t))]
                IN  /\ after.last = heap'[f.S][lastStep.id]
                    /\ after.last.skipped \/ after.last = f.cur
                                           \/ after.last = MemberResult(t, f, Len(StepsOf(f)))]_vars

C16_Witness ==
    /\ Done
    /\ root = "T_miss"
    /\ DOMAIN outcome.steps = {"z"}
    /\ outcome.o = Returned(Result(FALSE, 500, ErrorData("flow return_step missing")))

(***************************************************************************)
(* C17.  One execution of a step calls execute_action at most retries+1     *)
(* times; when it returns after an attempt that was not ok it has made      *)
(* exactly retries+1 calls; and after the first ok attempt it returns that  *)
(* result without another call.                                             *)
(***************************************************************************)
RetriesOf(sf) == StepAt(sf, sf.idx).retries

\* thread t's move takes the activation on top of its stack off the stack
Leaves(t) == threads'[t].state = "done" \/ Len(threads'[t].stack) < Len(Stack(t))
GivenBack(t) ==
    IF threads'[t].state = "done" THEN threads'[t].out.res
    ELSE threads'[t].stack[Len(threads'[t].stack)].cur

C17_AttemptsWithinRetries ==
    /\ [](\A a \in StepFrames : FrameOf(a).calls <= RetriesOf(FrameOf(a)) + 1)
    /\ [][\A t \in ThreadIds :
            (AtPc(t, "step", "after") /\ threads'[t] # threads[t]) =>
                LET sf == Top(t)
                IN  /\ sf.cur.ok => Leaves(t) /\ GivenBack(t) = sf.cur /\ invoked' = invoked
                    /\ (~sf.cur.ok /\ Leaves(t)) => sf.calls = RetriesOf(sf) + 1
                    /\ (~sf.cur.ok /\ ~Leaves(t)) =>
                          /\ sf.calls <= RetriesOf(sf)
                          /\ threads'[t].stack[Len(Stack(t))].pc = "attempt"]_vars

C17_Witness ==
    \E a \in StepFrames :
        /\ FrameOf(a).act = "T_ret"
        /\ FrameOf(a).pc = "after"
        /\ ~FrameOf(a).cur.ok
        /\ FrameOf(a).calls = 2

(***************************************************************************)
(* C18.  No call of a step's action begins at or after the step's           *)
(* effective deadline: an attempt (the first included) that finds the       *)
(* deadline passed returns {ok:false,status:504,data:{error:timeout}}       *)
(* without invoking the action, whatever retries remain.                    *)
(***************************************************************************)
HasDeadline(f) == f.deadline # NoDeadline

C18_NoAttemptAfterDeadline ==
    /\ [](\A a \in StepFrames :
             (FrameOf(a).calls > 0 /\ HasDeadline(FrameOf(a))) =>
                 FrameOf(a).calledAt < FrameOf(a).deadline)
    /\ [][\A t \in ThreadIds :
            (/\ AtPc(t, "step", "attempt")
             /\ HasDeadline(Top(t))
             /\ now >= Top(t).deadline
             /\ threads'[t] # threads[t]) =>
                /\ Leaves(t)
                /\ ~threads'[t].out.raised
                /\ GivenBack(t) = Result(FALSE, 504, ErrorData("timeout"))
                /\ invoked' = invoked]_vars

\* step t1 of T_time (retries 2) timed out before its second or third attempt
C18_Witness ==
    \E a \in FlowFrames :
        /\ FrameOf(a).act = "T_time"
        /\ FrameOf(a).pc = "record"
        /\ FrameOf(a).i = 1
        /\ FrameOf(a).cur = Result(FALSE, 504, ErrorData("timeout"))
        /\ (\E c \in invoked : c.flow = "T_time" /\ c.use = "v_fail")

DeadlineLeq(a, b) == b = NoDeadline \/ (a # NoDeadline /\ a <= b)

\* the flow activation a step activation belongs to: the frame below it, or
\* for a member of a parallel group the waiting frame of the parent thread
FlowFrameOf(a) ==
    IF a.n > 1 THEN Stack(a.t)[a.n - 1] ELSE Top(threads[a.t].parent)

C20_DeadlineNeverLooser ==
    /\ \A a \in StepFrames :
          LET sf == FrameOf(a)
              pd == FlowFrameOf(a).deadline
              ts == StepAt(sf, sf.idx).timeout_s
          IN  sf.pc # "prep" =>
                  /\ DeadlineLeq(sf.deadline, pd)
                  /\ (ts = 0 => sf.deadline = pd)
                  /\ ts # 0 =>
                        /\ HasDeadline(sf)
                        /\ sf.deadline <= sf.prepAt + ts
                        /\ sf.deadline = pd \/ sf.deadline = sf.prepAt + ts
    /\ \A a \in FlowFrames :
          a.n > 1 => FrameOf(a).deadline = Stack(a.t)[a.n - 1].deadline
    /\ \A a \in FramesAt :
          \A m \in 1 .. a.n : DeadlineLeq(FrameOf(a).deadline, Stack(a.t)[m].deadline)

\* step i1 of F_in (timeout_s 2) started at clock 1 under the deadline 2 of o1
C20_Witness ==
    \E a \in StepFrames :
        /\ FrameOf(a).act = "F_in"
        /\ FrameOf(a).idx = 1
        /\ FrameOf(a).pc = "after"
        /\ FrameOf(a).prepAt = 1
        /\ FrameOf(a).deadline = 2
        /\ FlowFrameOf(a).deadline = 2

(***************************************************************************)
(* C21.  An invocation that raises is the attempt's result                  *)
(* {ok: false, status: 500, data: {error: ...}}: the step does not raise,   *)
(* it tries again while attempts remain, and after the last attempt it      *)
(* returns that 500 result.                                                 *)
(***************************************************************************)
\* The call of execute_action in the attempt just made by t's step raised.
Caught(t) == AtPc(t, "step", "after") /\ Top(t).caught
CaughtAs(t) == Result(FALSE, 500, ErrorData(Top(t).lastExc))

\* t's activation of _run_step returns r: to the sequential branch of its flow,
\* or to the future of its worker thread.
StepGave(t, r) ==
    LET rest == Pop(Stack(t))
    IN  IF rest = <<>>
        THEN threads'[t].state = "done" /\ threads'[t].out = Returned(r)
        ELSE threads'[t].stack = WithTop(rest, [rest[Len(rest)] EXCEPT !.pc = "record", !.cur = r])

TriesAgain(t) ==
    threads'[t].stack = WithTop(Stack(t), [Top(t) EXCEPT !.attempt = @ + 1, !.pc = "attempt"])

\* As stated: the 500 result is what the step returns once no attempt remains.
C21_RaiseIs500Result ==
    [][\A t \in ThreadIds :
        (Caught(t) /\ threads'[t] # threads[t]) =>
            /\ Top(t).cur = CaughtAs(t)
            /\ IF MayRetry(Top(t).attempt, StepAt(Top(t), Top(t).idx).retries)
               THEN TriesAgain(t)
               ELSE StepGave(t, CaughtAs(t))]_vars

\* C21, amended: once no attempt remains the step returns the 500 result, or the
\* timeout result {ok: false, status: 504} when its deadline has passed by then.
C21_RaiseIs500OrTimeout ==
    [][\A t \in ThreadIds :
        (Caught(t) /\ threads'[t] # threads[t]) =>
            /\ Top(t).cur = CaughtAs(t)
            /\ IF MayRetry(Top(t).attempt, StepAt(Top(t), Top(t).idx).retries)
               THEN TriesAgain(t)
               ELSE StepGave(t, IF DeadlinePassed(Top(t).deadline, now)
                                THEN TimeoutResult ELSE CaughtAs(t))]_vars

\* step m3 of T_admin (retries 1) has raised in both attempts, and T_admin went
\* on; step t2 of T_time raised and its deadline has passed.
C21_Witness ==
    \/ /\ root = "T_admin"
       /\ Done
       /\ ~outcome.o.raised
       /\ "m3" \in DOMAIN outcome.steps
       /\ outcome.steps["m3"] = Result(FALSE, 500, ErrorData("unknown kind"))
    \/ \E t \in ThreadIds :
          /\ Caught(t)
          /\ Top(t).act = "T_time"
          /\ DeadlinePassed(Top(t).deadline, now)

(***************************************************************************)
(* C22.  Every call of execute_action on a flow action returns a result     *)
(* with a boolean ok, an integer status and data; no exception reaches the  *)
(* caller.                                                                  *)
(***************************************************************************)
StatusCodes == 100 .. 599
WellFormed(r) == r # NoResult /\ r.ok \in BOOLEAN /\ r.status \in StatusCodes

C22_FlowAlwaysReturns == Done => (~outcome.o.raised /\ WellFormed(outcome.o.res))

(***************************************************************************)
(* C23.  The steps and vars maps of a flow invocation are written by that   *)
(* invocation only: while a nested flow invoked by one of its steps runs,   *)
(* no entry of them is added or overwritten.                                *)
(***************************************************************************)
\* Frame n of thread t is a flow activation that waits for a nested flow.
InvokesNested(t, n) ==
    /\ n < Len(Stack(t))
    /\ Stack(t)[n].kind = "flow"
    /\ Stack(t)[n].S # 0
    /\ \E m \in (n + 1) .. Len(Stack(t)) : Stack(t)[m].kind = "flow"

C23_NestedFlowLeavesMaps ==
    [][\A t \in ThreadIds : \A n \in 1 .. Len(Stack(t)) :
          (InvokesNested(t, n) /\ Len(heap') >= Len(heap)) =>
              /\ heap'[Stack(t)[n].S] = heap[Stack(t)[n].S]
              /\ heap'[Stack(t)[n].V] = heap[Stack(t)[n].V]]_vars

(***************************************************************************)
(* The pure functions of src/vibeweb/conditions.py and of the renderer in   *)
(* src/vibeweb/actions.py, on JSON values in full.  A Python str is the     *)
(* sequence of its characters, a list the sequence of its items, and a dict *)
(* the sequence of its entries in insertion order (keys are strs).  The     *)
(* scalars are None, Bool(b) and Num(n) of above.                           *)
(***************************************************************************)
Text(chars) == [t |-> "str", v |-> chars]
List(items) == [t |-> "list", v |-> items]
Entry(k, val) == [k |-> k, val |-> val]
Map(entries) == [t |-> "map", v |-> entries]

\* What a call gave: a value, or the exception it raised.
Val(value) == [raised |-> FALSE, exc |-> "", val |-> value]
Exc(name) == [raised |-> TRUE, exc |-> name, val |-> None]

Keys(m) == {m.v[i].k : i \in 1 .. Len(m.v)}
\* dict.get(key)
MapGet(m, key) ==
    IF key \in Keys(m)
    THEN m.v[CHOOSE i \in 1 .. Len(m.v) : m.v[i].k = key].val
    ELSE None
\* d[key] = value on a copy of d
MapSet(m, key, value) ==
    IF key \in Keys(m)
    THEN Map([i \in 1 .. Len(m.v) |-> IF m.v[i].k = key THEN Entry(key, value) ELSE m.v[i]])
    ELSE Map(Append(m.v, Entry(key, value)))

\* The characters the model tells apart.  SuperscriptTwo is the character
\* U+00B2, a digit for str.isdigit() that int() does not read.
Space == " "
Dot == "."
SuperscriptTwo == "U+00B2"
AsciiDigits == {"0", "1", "2", "3", "4", "5", "6", "7", "8", "9"}
OtherDigits == {SuperscriptTwo}
DigitValue(c) ==
    CASE c = "0" -> 0 [] c = "1" -> 1 [] c = "2" -> 2 [] c = "3" -> 3 [] c = "4" -> 4
      [] c = "5" -> 5 [] c = "6" -> 6 [] c = "7" -> 7 [] c = "8" -> 8 [] c = "9" -> 9

\* str.strip()
RECURSIVE lstrip(_)
lstrip(s) == IF s # <<>> /\ Head(s) = Space THEN lstrip(Tail(s)) ELSE s
RECURSIVE rstrip(_)
rstrip(s) == IF s # <<>> /\ s[Len(s)] = Space THEN rstrip(SubSeq(s, 1, Len(s) - 1)) ELSE s
strip(s) == rstrip(lstrip(s))

\* str.split(sep): one part more than there are separators
RECURSIVE split(_, _)
split(s, sep) ==
    IF \A i \in 1 .. Len(s) : s[i] # sep THEN << s >>
    ELSE LET i == Min({n \in 1 .. Len(s) : s[n] = sep})
         IN  << SubSeq(s, 1, i - 1) >> \o split(SubSeq(s, i + 1, Len(s)), sep)

\* str.isdigit() and int(str)
isdigit(s) == s # <<>> /\ \A i \in 1 .. Len(s) : s[i] \in AsciiDigits \cup OtherDigits
RECURSIVE Decimal(_)
Decimal(s) == IF s = <<>> THEN 0 ELSE 10 * Decimal(SubSeq(s, 1, Len(s) - 1)) + DigitValue(s[Len(s)])
int(s) ==
    IF s # <<>> /\ \A i \in 1 .. Len(s) : s[i] \in AsciiDigits
    THEN Val(Decimal(s)) ELSE Exc("ValueError")

\* The loop of lookup_path over parts[1:].
RECURSIVE Walk(_, _)
Walk(value, keys) ==
    IF keys = <<>> THEN Val(value)
    ELSE LET key == Head(keys)
         IN  IF value.t = "map" THEN Walk(MapGet(value, key), Tail(keys))
             ELSE IF value.t = "list" /\ isdigit(key)
             THEN LET idx == int(key)
                  IN  IF idx.raised THEN idx
                      ELSE IF idx.val < Len(value.v)
                      THEN Walk(value.v[idx.val + 1], Tail(keys))
                      ELSE Val(None)
             ELSE Val(None)

\* lookup_path(expr, ctx) for a str expr and a dict ctx
LookupPath(expr, ctx) ==
    LET parts == SelectSeq(split(strip(expr), Dot), LAMBDA p : p # <<>>)
    IN  IF parts = <<>> THEN Val(None)
        ELSE Walk(MapGet(ctx, parts[1]), Tail(parts))

\* Python's == on JSON values: bool is a subclass of int, so True == 1 and
\* False == 0; a str, a list and a dict equal only their own kind; dicts
\* compare without regard to order.
IntRange == (0 - 2) .. 50
IntOf(x) ==
    IF x.t = "bool" THEN (IF x.v = "true" THEN 1 ELSE 0)
    ELSE CHOOSE n \in IntRange : ToString(n) = x.v
IsInt(x) == x.t \in {"int", "bool"}
RECURSIVE PyEq(_, _)
PyEq(a, b) ==
    IF IsInt(a) /\ IsInt(b) THEN IntOf(a) = IntOf(b)
    ELSE IF a.t # b.t THEN FALSE
    ELSE IF a.t = "list"
    THEN Len(a.v) = Len(b.v) /\ \A i \in 1 .. Len(a.v) : PyEq(a.v[i], b.v[i])
    ELSE IF a.t = "map"
    THEN Keys(a) = Keys(b) /\ \A k \in Keys(a) : PyEq(MapGet(a, k), MapGet(b, k))
    ELSE a = b

\* bool(value)
Truthy(x) ==
    IF x.t = "null" THEN FALSE
    ELSE IF IsInt(x) THEN IntOf(x) # 0
    ELSE x.v # <<>>

\* isinstance(x, (int, float)) and not isinstance(x, bool)
IsNumber(x) == x.t = "int"

\* needle in hay, hay.startswith(p), hay.endswith(p) on strs
Contains(hay, needle) ==
    \E i \in 0 .. (Len(hay) - Len(needle)) : SubSeq(hay, i + 1, i + Len(needle)) = needle
StartsWith(s, p) == Len(p) <= Len(s) /\ SubSeq(s, 1, Len(p)) = p
EndsWith(s, p) == Len(p) <= Len(s) /\ SubSeq(s, Len(s) - Len(p) + 1, Len(s)) = p

\* The operator keys, spelled out.
OpAnd == << "$", "a", "n", "d" >>
OpOr == << "$", "o", "r" >>
OpNot == << "$", "n", "o", "t" >>
OpEq == << "$", "e", "q" >>
OpNe == << "$", "n", "e" >>
OpGt == << "$", "g", "t" >>
OpGte == << "$", "g", "t", "e" >>
OpLt == << "$", "l", "t" >>
OpLte == << "$", "l", "t", "e" >>
OpIn == << "$", "i", "n" >>
OpContains == << "$", "c", "o", "n", "t", "a", "i", "n", "s" >>
OpStartsWith == << "$", "s", "t", "a", "r", "t", "s", "W", "i", "t", "h" >>
OpEndsWith == << "$", "e", "n", "d", "s", "W", "i", "t", "h" >>
OpRegex == << "$", "r", "e", "g", "e", "x" >>
OpAny == << "$", "a", "n", "y" >>
OpAll == << "$", "a", "l", "l" >>
OpExists == << "$", "e", "x", "i", "s", "t", "s" >>
OpTruthy == << "$", "t", "r", "u", "t", "h", "y" >>
BinaryOps == {OpEq, OpNe, OpGt, OpGte, OpLt, OpLte, OpIn, OpContains, OpStartsWith,
              OpEndsWith, OpRegex, OpAny, OpAll}
ItemKey == << "i", "t", "e", "m" >>

\* _OP_RE = ^\$[a-zA-Z_][a-zA-Z0-9_]*$
Letters == {"a", "b", "c", "d", "e", "f", "g", "h", "i", "j", "k", "l", "m", "n", "o", "p",
            "q", "r", "s", "t", "u", "v", "w", "x", "y", "z", "W"}
MatchesOpRe(k) ==
    /\ Len(k) >= 2
    /\ k[1] = "$"
    /\ k[2] \in Letters \cup {"_"}
    /\ \A i \in 3 .. Len(k) : k[i] \in Letters \cup AsciiDigits \cup {"_"}

\* _is_op_dict
is_op_dict(obj) == \E k \in Keys(obj) : k # <<>> /\ k[1] = "$"

\* isinstance(expr, str) and expr.strip()
IsExpr(x) == x.t = "str" /\ strip(x.v) # <<>>

\* re.search(pattern, s) for the patterns of the model: a pattern of letters
\* only matches where it occurs; a pattern with "(" and no ")" does not compile.
BadPattern(p) == (\E i \in 1 .. Len(p) : p[i] = "(") /\ (\A i \in 1 .. Len(p) : p[i] # ")")

\* An evaluation gives "true", "false", or the exception that left it.
FromBool(b) == IF b THEN "true" ELSE "false"
Negate(r) == IF r = "true" THEN "false" ELSE IF r = "false" THEN "true" ELSE r

RECURSIVE EvalCondition(_, _)
RECURSIVE AllOf(_, _)
RECURSIVE AnyOf(_, _)
RECURSIVE PlainMap(_, _)
RECURSIVE AnyItem(_, _, _)
RECURSIVE AllItems(_, _, _)

\* (a slip: the list is tested for being non-empty, its items are not evaluated)
AllOf_nonEmpty(items, ctx) == FromBool(items # <<>>)

\* all(eval_condition(item, ctx) for item in items): stops at the first item
\* that is not true.
AllOf(items, ctx) ==
    IF items = <<>> THEN "true"
    ELSE LET r == EvalCondition(Head(items), ctx)
         IN  IF r = "true" THEN AllOf(Tail(items), ctx) ELSE r

\* any(eval_condition(item, ctx) for item in items): stops at the first item
\* that is not false.
AnyOf(items, ctx) ==
    IF items = <<>> THEN "false"
    ELSE LET r == EvalCondition(Head(items), ctx)
         IN  IF r = "false" THEN AnyOf(Tail(items), ctx) ELSE r

\* The equality map: the entries in order, until one does not hold.
PlainMap(entries, ctx) ==
    IF entries = <<>> THEN "true"
    ELSE LET e == Head(entries)
             actual == LookupPath(e.k, ctx)
         IN  IF strip(e.k) = <<>> THEN "false"
             ELSE IF actual.raised THEN actual.exc
             ELSE IF ~PyEq(actual.val, e.val) THEN "false"
             ELSE PlainMap(Tail(entries), ctx)

\* The loops of $any and $all: each item is bound to "item" in a copy of ctx.
AnyItem(items, expected, ctx) ==
    IF items = <<>> THEN "false"
    ELSE LET r == EvalCondition(expected, MapSet(ctx, ItemKey, Head(items)))
         IN  IF r = "false" THEN AnyItem(Tail(items), expected, ctx) ELSE r

\* (a slip: $all runs the loop of $any)
AllItems_asAny(items, expected, ctx) == AnyItem(items, expected, ctx)

AllItems(items, expected, ctx) ==
    IF items = <<>> THEN "true"
    ELSE LET r == EvalCondition(expected, MapSet(ctx, ItemKey, Head(items)))
         IN  IF r = "true" THEN AllItems(Tail(items), expected, ctx) ELSE r

\* The operators that take [expr, value], once expr is resolved to actual.
Binary(op, actual, expected, ctx) ==
    IF op = OpEq THEN FromBool(PyEq(actual, expected))
    ELSE IF op = OpNe THEN FromBool(~PyEq(actual, expected))
    ELSE IF op \in {OpGt, OpGte, OpLt, OpLte}
    THEN IF ~IsNumber(actual) \/ ~IsNumber(expected) THEN "false"
         ELSE IF op = OpGt THEN FromBool(IntOf(actual) > IntOf(expected))
         ELSE IF op = OpGte THEN FromBool(IntOf(actual) >= IntOf(expected))
         ELSE IF op = OpLt THEN FromBool(IntOf(actual) < IntOf(expected))
         ELSE FromBool(IntOf(actual) <= IntOf(expected))
    ELSE IF op = OpIn
    THEN IF expected.t # "list" THEN "ConditionError"
         ELSE FromBool(\E i \in 1 .. Len(expected.v) : PyEq(actual, expected.v[i]))
    ELSE IF op = OpContains
    THEN IF actual.t = "str" /\ expected.t = "str" THEN FromBool(Contains(actual.v, expected.v))
         ELSE IF actual.t = "list"
         THEN FromBool(\E i \in 1 .. Len(actual.v) : PyEq(expected, actual.v[i]))
         ELSE IF actual.t = "map" /\ expected.t = "str" THEN FromBool(expected.v \in Keys(actual))
         ELSE "false"
    ELSE IF op = OpStartsWith
    THEN IF expected.t # "str" THEN "ConditionError"
         ELSE IF actual.t # "str" THEN "false"
         ELSE FromBool(StartsWith(actual.v, expected.v))
    ELSE IF op = OpEndsWith
    THEN IF expected.t # "str" THEN "ConditionError"
         ELSE IF actual.t # "str" THEN "false"
         ELSE FromBool(EndsWith(actual.v, expected.v))
    ELSE IF op = OpRegex
    THEN IF expected.t # "str" THEN "ConditionError"
         ELSE IF actual.t # "str" THEN "false"
         ELSE IF BadPattern(expected.v) THEN "ConditionError"
         ELSE FromBool(Contains(actual.v, expected.v))
    ELSE IF expected.t # "map" THEN "ConditionError"
    ELSE IF actual.t \notin {"null", "list"} THEN "false"
    ELSE IF op = OpAny
    THEN AnyItem(IF actual.t = "null" THEN <<>> ELSE actual.v, expected, ctx)
    ELSE AllItems(IF actual.t = "null" THEN <<>> ELSE actual.v, expected, ctx)

\* $exists with 'expr' or ['expr', bool]
Exists(arg, ctx) ==
    IF arg.t = "list" /\ Len(arg.v) # 2 THEN "ConditionError"
    ELSE LET expr == IF arg.t = "list" THEN arg.v[1] ELSE arg
             expected_bool == IF arg.t = "list" THEN arg.v[2] ELSE None
             found == LookupPath(expr.v, ctx)
         IN  IF ~IsExpr(expr) THEN "ConditionError"
             ELSE IF found.raised THEN found.exc
             ELSE IF expected_bool = None THEN FromBool(found.val # None)
             ELSE FromBool((found.val # None) = Truthy(expected_bool))

\* The branch of eval_condition for a dict with one key that starts with "$".
Operator(op, arg, ctx) ==
    IF ~MatchesOpRe(op) THEN "ConditionError"
    ELSE IF op = OpAnd THEN (IF arg.t # "list" THEN "ConditionError" ELSE AllOf(arg.v, ctx))
    ELSE IF op = OpOr THEN (IF arg.t # "list" THEN "ConditionError" ELSE AnyOf(arg.v, ctx))
    ELSE IF op = OpNot THEN Negate(EvalCondition(arg, ctx))
    ELSE IF op \in BinaryOps
    THEN IF arg.t # "list" THEN "ConditionError"
         ELSE IF Len(arg.v) # 2 THEN "ConditionError"
         ELSE IF ~IsExpr(arg.v[1]) THEN "ConditionError"
         ELSE LET actual == LookupPath(arg.v[1].v, ctx)
              IN  IF actual.raised THEN actual.exc
                  ELSE Binary(op, actual.val, arg.v[2], ctx)
    ELSE IF op = OpExists THEN Exists(arg, ctx)
    ELSE IF op = OpTruthy
    THEN IF ~IsExpr(arg) THEN "ConditionError"
         ELSE LET found == LookupPath(arg.v, ctx)
              IN  IF found.raised THEN found.exc ELSE FromBool(Truthy(found.val))
    ELSE "ConditionError"

\* eval_condition(cond, ctx)
EvalCondition(cond, ctx) ==
    IF cond.t = "null" THEN "true"
    ELSE IF cond.t = "bool" THEN cond.v
    ELSE IF cond.t = "list" THEN AllOf(cond.v, ctx)
    ELSE IF cond.t # "map" THEN "false"
    ELSE IF ~is_op_dict(cond) THEN PlainMap(cond.v, ctx)
    ELSE IF Len(cond.v) # 1 THEN "ConditionError"
    ELSE Operator(cond.v[1].k, cond.v[1].val, ctx)

(***************************************************************************)
(* What eval_condition does to the dict objects it holds.  A context is an  *)
(* object of a heap of dicts, named by its index; dict(ctx) makes a new     *)
(* object, item_ctx["item"] = item writes into the object item_ctx names.   *)
(* Every other branch only reads (ctx.get, value.get).                      *)
(***************************************************************************)
\* (a slip: item_ctx = ctx, the same object and not a copy)
CopyCtx_alias(h, ref) == [h |-> h, ref |-> ref]

\* item_ctx = dict(ctx)
CopyCtx(h, ref) == [h |-> Append(h, h[ref]), ref |-> Len(h) + 1]

\* item_ctx["item"] = item
BindItem(h, ref, item) == [h EXCEPT ![ref] = MapSet(@, ItemKey, item)]

\* The $any / $all argument that reaches the loop over the items.
ReachesLoop(arg, ctx) ==
    /\ arg.t = "list"
    /\ Len(arg.v) = 2
    /\ IsExpr(arg.v[1])
    /\ ~LookupPath(arg.v[1].v, ctx).raised
    /\ arg.v[2].t = "map"
    /\ LookupPath(arg.v[1].v, ctx).val.t = "list"

RECURSIVE HeapAfter(_, _, _)
RECURSIVE HeapAfterEach(_, _, _, _)
RECURSIVE HeapAfterItems(_, _, _, _, _)

\* all(...) / any(...): the items in order while they give goOn.
HeapAfterEach(items, ref, h, goOn) ==
    IF items = <<>> THEN h
    ELSE LET h1 == HeapAfter(Head(items), ref, h)
         IN  IF EvalCondition(Head(items), h[ref]) = goOn
             THEN HeapAfterEach(Tail(items), ref, h1, goOn)
             ELSE h1

\* for item in items: item_ctx = dict(ctx); item_ctx["item"] = item;
\* eval_condition(expected, item_ctx), while the results are goOn.
HeapAfterItems(items, expected, ref, h, goOn) ==
    IF items = <<>> THEN h
    ELSE LET c == CopyCtx(h, ref)
             h1 == BindItem(c.h, c.ref, Head(items))
             h2 == HeapAfter(expected, c.ref, h1)
         IN  IF EvalCondition(expected, h1[c.ref]) = goOn
             THEN HeapAfterItems(Tail(items), expected, ref, h2, goOn)
             ELSE h2

\* The heap after eval_condition(cond, ctx), ctx being the object ref of h.
HeapAfter(cond, ref, h) ==
    IF cond.t = "list" THEN HeapAfterEach(cond.v, ref, h, "true")
    ELSE IF cond.t # "map" \/ ~is_op_dict(cond) \/ Len(cond.v) # 1 THEN h
    ELSE LET op == cond.v[1].k
             arg == cond.v[1].val
         IN  IF op = OpAnd /\ arg.t = "list" THEN HeapAfterEach(arg.v, ref, h, "true")
             ELSE IF op = OpOr /\ arg.t = "list" THEN HeapAfterEach(arg.v, ref, h, "false")
             ELSE IF op = OpNot THEN HeapAfter(arg, ref, h)
             ELSE IF op \in {OpAny, OpAll} /\ ReachesLoop(arg, h[ref])
             THEN HeapAfterItems(LookupPath(arg.v[1].v, h[ref]).val.v, arg.v[2], ref, h,
                                 IF op = OpAny THEN "false" ELSE "true")
             ELSE h

\* The caller's context after eval_condition(cond, ctx) returned or raised.
CtxAfter(cond, ctx) == HeapAfter(cond, 1, << ctx >>)[1]

\* str(value) of render_str.repl, and repr for the items of a list or dict.
DigitChar(d) ==
    CASE d = 0 -> "0" [] d = 1 -> "1" [] d = 2 -> "2" [] d = 3 -> "3" [] d = 4 -> "4"
      [] d = 5 -> "5" [] d = 6 -> "6" [] d = 7 -> "7" [] d = 8 -> "8" [] d = 9 -> "9"
RECURSIVE DigitsOf(_)
DigitsOf(n) ==
    IF n < 0 THEN << "-" >> \o DigitsOf(0 - n)
    ELSE IF n < 10 THEN << DigitChar(n) >>
    ELSE DigitsOf(n \div 10) \o << DigitChar(n % 10) >>

RECURSIVE Repr(_)
RECURSIVE JoinRepr(_)
RECURSIVE JoinEntries(_)
JoinRepr(items) ==
    IF items = <<>> THEN <<>>
    ELSE IF Len(items) = 1 THEN Repr(items[1])
    ELSE Repr(items[1]) \o << ",", " " >> \o JoinRepr(Tail(items))
JoinEntries(entries) ==
    IF entries = <<>> THEN <<>>
    ELSE LET e == entries[1]
             one == << "'" >> \o e.k \o << "'", ":", " " >> \o Repr(e.val)
         IN  IF Len(entries) = 1 THEN one
             ELSE one \o << ",", " " >> \o JoinEntries(Tail(entries))
Repr(x) ==
    IF x.t = "null" THEN << "N", "o", "n", "e" >>
    ELSE IF x.t = "bool"
    THEN (IF x.v = "true" THEN << "T", "r", "u", "e" >> ELSE << "F", "a", "l", "s", "e" >>)
    ELSE IF x.t = "int" THEN DigitsOf(IntOf(x))
    ELSE IF x.t = "str" THEN << "'" >> \o x.v \o << "'" >>
    ELSE IF x.t = "list" THEN << "[" >> \o JoinRepr(x.v) \o << "]" >>
    ELSE << "{" >> \o JoinEntries(x.v) \o << "}" >>
PyStr(x) == IF x.t = "str" THEN x.v ELSE Repr(x)

\* Where _TEMPLATE_RE = \$\{([^}]+)\} matches at position i of s: the position
\* of the closing brace, or 0 when it does not match there.
MatchEnd(s, i) ==
    IF /\ i + 3 <= Len(s)
       /\ s[i] = "$"
       /\ s[i + 1] = "{"
       /\ s[i + 2] # "}"
       /\ \E n \in (i + 3) .. Len(s) : s[n] = "}"
    THEN Min({n \in (i + 3) .. Len(s) : s[n] = "}"})
    ELSE 0

\* _template_lookup: a missing value is the empty string
TemplateLookup(expr, ctx) ==
    LET found == LookupPath(expr, ctx)
    IN  IF found.raised THEN found
        ELSE IF found.val = None THEN Val(Text(<<>>)) ELSE found

\* render_str: _TEMPLATE_RE.sub(repl, template), from position i on
RECURSIVE RenderFrom(_, _, _)
RenderFrom(s, i, ctx) ==
    IF i > Len(s) THEN Val(<<>>)
    ELSE LET end == MatchEnd(s, i)
         IN  IF end = 0
             THEN LET rest == RenderFrom(s, i + 1, ctx)
                  IN  IF rest.raised THEN rest ELSE Val(<< s[i] >> \o rest.val)
             ELSE LET value == TemplateLookup(strip(SubSeq(s, i + 2, end - 1)), ctx)
                      rest == RenderFrom(s, end + 1, ctx)
                  IN  IF value.raised THEN value
                      ELSE IF rest.raised THEN rest
                      ELSE Val(PyStr(value.val) \o rest.val)
RenderStr(template, ctx) ==
    LET r == RenderFrom(template, 1, ctx) IN IF r.raised THEN r ELSE Val(Text(r.val))

\* (a slip: the single placeholder is rendered as text like any other string)
FullMatch_never(s) == FALSE

\* _TEMPLATE_RE.fullmatch(stripped)
FullMatch(s) == Len(s) >= 4 /\ MatchEnd(s, 1) = Len(s)

\* render_value
RECURSIVE RenderValue(_, _)
RECURSIVE RenderItems(_, _)
RECURSIVE RenderEntries(_, _)
RenderItems(items, ctx) ==
    IF items = <<>> THEN Val(<<>>)
    ELSE LET one == RenderValue(Head(items), ctx)
             rest == RenderItems(Tail(items), ctx)
         IN  IF one.raised THEN one ELSE IF rest.raised THEN rest
             ELSE Val(<< one.val >> \o rest.val)
RenderEntries(entries, ctx) ==
    IF entries = <<>> THEN Val(<<>>)
    ELSE LET one == RenderValue(Head(entries).val, ctx)
             rest == RenderEntries(Tail(entries), ctx)
         IN  IF one.raised THEN one ELSE IF rest.raised THEN rest
             ELSE Val(<< Entry(Head(entries).k, one.val) >> \o rest.val)
RenderValue(value, ctx) ==
    IF value.t = "str"
    THEN IF FullMatch(strip(value.v))
         THEN LookupPath(strip(SubSeq(strip(value.v), 3, Len(strip(value.v)) - 1)), ctx)
         ELSE RenderStr(value.v, ctx)
    ELSE IF value.t = "list"
    THEN LET r == RenderItems(value.v, ctx) IN IF r.raised THEN r ELSE Val(List(r.val))
    ELSE IF value.t = "map"
    THEN LET r == RenderEntries(value.v, ctx) IN IF r.raised THEN r ELSE Val(Map(r.val))
    ELSE Val(value)

(***************************************************************************)
(* One call of a pure function.  The caller picks the function and its      *)
(* arguments from the bounded sets below; the call stores what it gave.     *)
(***************************************************************************)
MaxPathLen == 4
MaxItems == 2

Call(fn, arg, ctx) ==
    [fn |-> fn, arg |-> arg, ctx |-> ctx, given |-> ctx, done |-> FALSE, out |-> Val(None)]
Called(fn) == calc.fn = fn /\ calc.done

\* The sequences over S of length n, and of length up to n.
RECURSIVE SeqsOf(_, _)
SeqsOf(S, n) == IF n = 0 THEN {<<>>} ELSE {Append(q, c) : q \in SeqsOf(S, n - 1), c \in S}
SeqsUpTo(S, n) == UNION {SeqsOf(S, k) : k \in 0 .. n}

\* lookup_path: every path string over these characters, on a context with
\* nested dicts and lists, and on the empty context.
PathChars == {"a", "b", ".", " ", "0", "1", SuperscriptTwo}
PathInputs == {Text(p) : p \in SeqsUpTo(PathChars, MaxPathLen)}
PathCtxs ==
    { Map(<< Entry(<< "a" >>, Map(<< Entry(<< "b" >>, Num(7)),
                                    Entry(<< "a" >>, List(<< Num(5), Num(6) >>)),
                                    Entry(<< "1" >>, Text(<< "x" >>)) >>)),
             Entry(<< "b" >>, List(<< Map(<< Entry(<< "a" >>, Num(1)) >>), Text(<< "y" >>) >>)),
             Entry(<< "0" >>, Bool(TRUE)) >>),
      Map(<<>>) }

DoLookupPath ==
    /\ calc.fn = "lookup_path"
    /\ ~calc.done
    /\ calc' = [calc EXCEPT !.done = TRUE, !.out = LookupPath(calc.arg.v, calc.ctx)]
    /\ UNCHANGED <<root, run, first, heap, threads, outcome, invoked, now>>

\* eval_condition: contexts (the last holds a key "item" of its own), and
\* conditions of every form.
CondCtxs ==
    { Map(<< Entry(<< "n" >>, Num(1)), Entry(<< "f" >>, Bool(TRUE)),
             Entry(<< "s" >>, Text(<< "1" >>)), Entry(<< "l" >>, List(<< Num(1), Num(2) >>)),
             Entry(<< "e" >>, List(<<>>)), Entry(<< "m" >>, Map(<< Entry(<< "k" >>, Num(1)) >>)) >>),
      Map(<< Entry(<< "n" >>, Num(2)), Entry(<< "f" >>, Bool(FALSE)),
             Entry(<< "l" >>, List(<< Num(2), Bool(TRUE) >>)) >>),
      Map(<< Entry(ItemKey, Num(2)), Entry(<< "l" >>, List(<< Num(1), Num(2) >>)) >>) }

Op1(op, arg) == Map(<< Entry(op, arg) >>)
Pair(expr, value) == List(<< Text(expr), value >>)
OpWat == << "$", "w", "a", "t" >>

\* Conditions that are true or false with the context, that fail with
\* ConditionError, and one whose path makes lookup_path raise.
LeafConds ==
    { None, Bool(FALSE), Num(1),
      Op1(<< "n" >>, Num(1)),
      Op1(OpGt, Pair(<< "n" >>, Num(1))),
      Op1(OpWat, Num(1)),
      Op1(OpIn, Pair(<< "n" >>, Num(1))),
      Op1(<< "l", ".", SuperscriptTwo >>, Num(1)) }
Combined ==
    UNION { {List(items), Op1(OpAnd, List(items)), Op1(OpOr, List(items))} :
                items \in SeqsUpTo(LeafConds, MaxItems) }
        \cup {Op1(OpNot, c) : c \in LeafConds}

\* Equality maps of up to MaxItems entries.
EqPaths == {<< "n" >>, << "f" >>, << "s" >>, << "q" >>, << " " >>}
EqValues == {Num(1), Num(2), Bool(TRUE), Text(<< "1" >>), None}
EqEntries == {Entry(p, value) : p \in EqPaths, value \in EqValues}
DistinctKeys(entries) ==
    \A i, j \in 1 .. Len(entries) : i # j => entries[i].k # entries[j].k
EqualityMaps ==
    {Map(entries) : entries \in {es \in SeqsUpTo(EqEntries, MaxItems) : DistinctKeys(es)}}

\* Maps with a "$" key: every operator and some keys that are none, with
\* arguments of every shape, alone and next to a second key.
OpKeys ==
    BinaryOps \cup {OpAnd, OpOr, OpNot, OpExists, OpTruthy, OpWat, << "$" >>, << "$", "1" >>}
ArgShapes ==
    { None, Num(1), Text(<< "n" >>), Text(<< " " >>), List(<<>>), List(<< Text(<< "n" >>) >>),
      Pair(<< "n" >>, Num(1)), Pair(<< "n" >>, Text(<< "1" >>)), Pair(<< "n" >>, Bool(TRUE)),
      Pair(<< "n" >>, List(<< Num(1) >>)), Pair(<< "s" >>, Text(<< "(" >>)),
      Pair(<< "l" >>, Op1(ItemKey, Num(1))), Pair(<< " " >>, Num(1)),
      List(<< Num(1), Num(1) >>), List(<< Text(<< "n" >>), Num(1), Num(1) >>),
      Op1(<< "n" >>, Num(1)) }
OperatorMaps ==
    {Op1(op, arg) : op \in OpKeys, arg \in ArgShapes}
        \cup {Map(<< Entry(op, arg), Entry(k, Num(1)) >>) :
                  op \in OpKeys, arg \in {Pair(<< "n" >>, Num(1)), List(<<>>)},
                  k \in {<< "n" >>, OpNe}}
        \cup {Map(<< Entry(<< "n" >>, Num(1)), Entry(op, Pair(<< "n" >>, Num(1))) >>) :
                  op \in OpKeys}

\* $any and $all: paths to a list, an empty list, nothing, a number and a
\* dict, with nested condition objects on "item".
QuantPaths == {<< "l" >>, << "e" >>, << "q" >>, << "n" >>, << "m" >>}
NestedObjects ==
    { Op1(ItemKey, Num(1)),
      Op1(OpGt, Pair(ItemKey, Num(1))),
      Op1(OpGte, Pair(ItemKey, Num(1))),
      Op1(OpEq, Pair(ItemKey, Bool(TRUE))),
      Op1(OpNot, Op1(ItemKey, Num(2))),
      Op1(OpWat, Num(1)),
      Op1(OpAny, Pair(<< "l" >>, Op1(ItemKey, Num(2)))),
      Map(<<>>) }
Quantified ==
    {Op1(op, Pair(p, c)) : op \in {OpAny, OpAll}, p \in QuantPaths, c \in NestedObjects}

CondInputs == LeafConds \cup Combined \cup EqualityMaps \cup OperatorMaps \cup Quantified

DoEvalCondition ==
    /\ calc.fn = "eval_condition"
    /\ ~calc.done
    /\ calc' = [calc EXCEPT !.done = TRUE,
                             !.out = EvalCondition(calc.arg, calc.ctx),
                             !.ctx = CtxAfter(calc.arg, calc.ctx)]
    /\ UNCHANGED <<root, run, first, heap, threads, outcome, invoked, now>>

\* render_value and _apply_flow_set: the context of a flow step, the paths
\* into it, and templates with one placeholder, alone or inside other text.
KeySteps == << "s", "t", "e", "p", "s" >>
KeyVars == << "v", "a", "r", "s" >>
KeyInput == << "i", "n", "p", "u", "t" >>
KeyData == << "d", "a", "t", "a" >>
KeyOk == << "o", "k" >>
RenderCtx ==
    Map(<< Entry(KeyInput, Map(<< Entry(<< "n" >>, Num(7)) >>)),
           Entry(KeySteps, Map(<< Entry(<< "w" >>,
                     Map(<< Entry(KeyOk, Bool(TRUE)),
                            Entry(KeyData, List(<< Num(1), Text(<< "b" >>) >>)) >>)) >>)),
           Entry(KeyVars, Map(<< Entry(<< "a" >>, Num(42)), Entry(<< "s" >>, Text(<< "x" >>)) >>)) >>)
RenderPaths ==
    { KeyVars \o << ".", "a" >>,                      \* a number
      KeyVars \o << ".", "s" >>,                      \* a string
      KeyVars \o << ".", "q" >>,                      \* missing
      KeyInput,                                       \* a dict
      KeySteps \o << ".", "w", "." >> \o KeyData,     \* a list
      KeySteps \o << ".", "w", "." >> \o KeyOk,       \* a boolean
      KeySteps \o << ".", "w", "." >> \o KeyData \o << ".", SuperscriptTwo >> }
Pads == {<<>>, << " " >>}
Placeholder(p) == << "$", "{" >> \o p \o << "}" >>
Exact(p, a, b, c, d) == a \o << "$", "{" >> \o b \o p \o c \o << "}" >> \o d
ExactTemplates == {Exact(p, a, b, c, d) : p \in RenderPaths, a \in Pads, b \in Pads, c \in Pads, d \in Pads}
Prefixes == {<<>>, << "x" >>, << "$" >>, << "x", " " >>}
Suffixes == {<<>>, << "y" >>, << "}" >>, << " ", "y" >>}
Embedded(p, pre, suf) == pre \o Placeholder(p) \o suf
EmbeddedTemplates ==
    {Embedded(p, pre, suf) : p \in RenderPaths, pre \in Prefixes, suf \in Suffixes} \ ExactTemplates
OtherTemplates ==
    { <<>>, << "x" >>, << "$", "{", "}" >>, << "$", "{" >> \o KeyVars,
      Placeholder(KeyVars \o << ".", "a" >>) \o Placeholder(KeyVars \o << ".", "q" >>) }
RenderInputs ==
    {Text(s) : s \in ExactTemplates \cup EmbeddedTemplates \cup OtherTemplates}
        \cup {None, Num(5), Bool(TRUE)}
        \cup {List(<< Text(a), Text(b) >>) : a \in OtherTemplates, b \in {Placeholder(KeyInput)}}
        \cup {Op1(<< "k" >>, Text(s)) : s \in {Placeholder(p) : p \in RenderPaths}}

DoRenderValue ==
    /\ calc.fn = "render_value"
    /\ ~calc.done
    /\ calc' = [calc EXCEPT !.done = TRUE, !.out = RenderValue(calc.arg, calc.ctx)]
    /\ UNCHANGED <<root, run, first, heap, threads, outcome, invoked, now>>

\* _apply_flow_set(step_id, mapping, ctx, vars_out), where vars_out is
\* ctx["vars"]: each key is rendered against the context as written so far.
RECURSIVE ApplyFlowSet(_, _)
ApplyFlowSet(mapping, ctx) ==
    IF mapping = <<>> THEN Val(ctx)
    ELSE LET e == Head(mapping)
             value == RenderValue(e.val, ctx)
         IN  IF e.k = <<>> THEN Exc("ActionError")
             ELSE IF value.raised THEN value
             ELSE ApplyFlowSet(Tail(mapping),
                               MapSet(ctx, KeyVars, MapSet(MapGet(ctx, KeyVars), e.k, value.val)))

\* The names a step may set, and what a later step whose input is exactly
\* ${vars.<name>} gets: step_input = render_value(step.input, render_ctx).
SetNames == {<< "a" >>, << "r" >>, << "r", "2" >>}
SetInputs == {Op1(name, Text(tpl)) : name \in SetNames, tpl \in ExactTemplates \cup EmbeddedTemplates}
ReadVar(name, ctx) == RenderValue(Text(Placeholder(KeyVars \o << "." >> \o name)), ctx)

DoFlowSet ==
    /\ calc.fn = "flow_set"
    /\ ~calc.done
    /\ LET after == ApplyFlowSet(calc.arg.v, calc.ctx)
       IN  calc' = [calc EXCEPT !.done = TRUE,
                                !.out = IF after.raised THEN after
                                        ELSE ReadVar(calc.arg.v[1].k, after.val),
                                !.ctx = IF after.raised THEN @ ELSE after.val]
    /\ UNCHANGED <<root, run, first, heap, threads, outcome, invoked, now>>

(***************************************************************************)
(* The specification of the pure functions: one call, of any function, on   *)
(* any arguments of the sets above.  No flow runs.                          *)
(***************************************************************************)
PureInit ==
    /\ calc \in {Call("lookup_path", p, x) : p \in PathInputs, x \in PathCtxs}
            \cup {Call("eval_condition", c, x) : c \in CondInputs, x \in CondCtxs}
            \cup {Call("render_value", value, RenderCtx) : value \in RenderInputs}
            \cup {Call("flow_set", m, RenderCtx) : m \in SetInputs}
    /\ root = "T_none"
    /\ run = 1
    /\ first = NoFinal
    /\ heap = <<>>
    /\ threads = [u \in ThreadIds |-> FreeThread]
    /\ outcome = NoFinal
    /\ invoked = {}
    /\ now = 0

PureNext ==
    \/ DoLookupPath
    \/ DoEvalCondition
    \/ DoRenderValue
    \/ DoFlowSet

PureSpec == PureInit /\ [][PureNext]_vars

(***************************************************************************)
(* C24.  A variable set from a value that is exactly one ${path}            *)
(* placeholder holds the resolved value with its own type, and a later      *)
(* step whose input is exactly ${vars.<name>} receives that value; a        *)
(* string with a placeholder inside other text renders to text, a missing   *)
(* value as empty text.  (Names are plain identifiers, and the path is one  *)
(* that lookup_path resolves.)                                              *)
(***************************************************************************)
TextOf(value) == IF value = None THEN <<>> ELSE PyStr(value)

C24_SetKeepsNativeType ==
    /\ \A name \in SetNames, p \in RenderPaths, a \in Pads, b \in Pads, c \in Pads, d \in Pads :
          (/\ Called("flow_set")
           /\ calc.arg = Op1(name, Text(Exact(p, a, b, c, d)))
           /\ ~LookupPath(p, RenderCtx).raised) =>
              /\ MapGet(MapGet(calc.ctx, KeyVars), name) = LookupPath(p, RenderCtx).val
              /\ calc.out = LookupPath(p, RenderCtx)
    /\ \A p \in RenderPaths, pre \in Prefixes, suf \in Suffixes :
          (/\ Called("render_value")
           /\ calc.arg = Text(Embedded(p, pre, suf))
           /\ Embedded(p, pre, suf) \notin ExactTemplates
           /\ ~LookupPath(p, RenderCtx).raised) =>
              calc.out = Val(Text(pre \o TextOf(LookupPath(p, RenderCtx).val) \o suf))

\* a variable was set from ${steps.w.data} and the later step got the list;
\* or "x${vars.q}y" was rendered to "xy"
C24_Witness ==
    \/ /\ Called("flow_set")
       /\ calc.arg = Op1(<< "r" >>, Text(Placeholder(KeySteps \o << ".", "w", "." >> \o KeyData)))
       /\ calc.out = Val(List(<< Num(1), Text(<< "b" >>) >>))
    \/ /\ Called("render_value")
       /\ calc.arg = Text(Embedded(KeyVars \o << ".", "q" >>, << "x" >>, << "y" >>))
       /\ calc.out = Val(Text(<< "x", "y" >>))

(***************************************************************************)
(* C25.  Evaluating the one-element list [cond] has the same outcome as     *)
(* evaluating cond: the same boolean, or the same error.                    *)
(***************************************************************************)
C25_ListOfOneIsIdentity ==
    Called("eval_condition") =>
        /\ EvalCondition(List(<< calc.arg >>), calc.ctx) = calc.out
        /\ (calc.arg.t = "list" /\ Len(calc.arg.v) = 1) =>
               calc.out = EvalCondition(calc.arg.v[1], calc.ctx)

\* [cond] was evaluated for a cond that is true, false, or an error in the context
C25_Witness ==
    /\ Called("eval_condition")
    /\ calc.arg \in {List(<< c >>) : c \in LeafConds}
    /\ calc.out = "ConditionError"

(***************************************************************************)
(* C26.  When the path resolves to an empty list or to null, $all is true   *)
(* and $any is false, whatever the nested condition object is; on a         *)
(* non-empty list $any is true iff the nested condition holds for some      *)
(* element bound to "item", and $all iff it holds for every element.        *)
(***************************************************************************)
\* The nested condition c on element i of the list, as $any/$all bind it.
OnItem(c, list, i, ctx) == EvalCondition(c, MapSet(ctx, ItemKey, list.v[i]))
Evaluable(c, list, ctx) ==
    \A i \in 1 .. Len(list.v) : OnItem(c, list, i, ctx) \in {"true", "false"}

C26_QuantifiersOverLists ==
    \A op \in {OpAny, OpAll}, p \in QuantPaths, c \in NestedObjects :
        (Called("eval_condition") /\ calc.arg = Op1(op, Pair(p, c))) =>
            LET actual == LookupPath(p, calc.ctx).val
            IN  /\ (actual = None \/ actual = List(<<>>)) =>
                       calc.out = (IF op = OpAll THEN "true" ELSE "false")
                /\ (actual.t = "list" /\ actual.v # <<>> /\ Evaluable(c, actual, calc.ctx)) =>
                       /\ calc.out \in {"true", "false"}
                       /\ op = OpAny =>
                            ((calc.out = "true") <=>
                                \E i \in 1 .. Len(actual.v) : OnItem(c, actual, i, calc.ctx) = "true")
                       /\ op = OpAll =>
                            ((calc.out = "true") <=>
                                \A i \in 1 .. Len(actual.v) : OnItem(c, actual, i, calc.ctx) = "true")

\* $all was evaluated on a missing path with a nested object that is itself
\* no valid condition, and gave true; or on the list [1, 2] with item >= 1
C26_Witness ==
    /\ Called("eval_condition")
    /\ calc.out = "true"
    /\ \/ calc.arg = Op1(OpAll, Pair(<< "q" >>, Op1(OpWat, Num(1))))
       \/ calc.arg = Op1(OpAll, Pair(<< "l" >>, Op1(OpGte, Pair(ItemKey, Num(1)))))

(***************************************************************************)
(* C27.  A map with a "$" key fails with ConditionError when it has more    *)
(* than one key, when its single key is not an operator, or when the        *)
(* operator's argument has the wrong shape; it never gives a boolean then.  *)
(***************************************************************************)
Operators == BinaryOps \cup {OpAnd, OpOr, OpNot, OpExists, OpTruthy}

\* The argument shapes of eval_condition's docstring: a list for $and/$or;
\* [expr, value] with a non-blank string expr for the binary operators, the
\* value a list for $in, a string for $startsWith/$endsWith/$regex, a condition
\* object for $any/$all; 'expr' or ['expr', bool] for $exists; 'expr' for $truthy.
IsExprPair(arg) == arg.t = "list" /\ Len(arg.v) = 2 /\ IsExpr(arg.v[1])
RightShape(op, arg) ==
    IF op \in {OpAnd, OpOr} THEN arg.t = "list"
    ELSE IF op = OpNot THEN TRUE
    ELSE IF op = OpIn THEN IsExprPair(arg) /\ arg.v[2].t = "list"
    ELSE IF op \in {OpStartsWith, OpEndsWith, OpRegex} THEN IsExprPair(arg) /\ arg.v[2].t = "str"
    ELSE IF op \in {OpAny, OpAll} THEN IsExprPair(arg) /\ arg.v[2].t = "map"
    ELSE IF op \in BinaryOps THEN IsExprPair(arg)
    ELSE IF op = OpExists THEN IsExpr(arg) \/ (IsExprPair(arg) /\ arg.v[2].t = "bool")
    ELSE IsExpr(arg)

Malformed(cond) ==
    /\ cond.t = "map"
    /\ is_op_dict(cond)
    /\ \/ Len(cond.v) # 1
       \/ cond.v[1].k \notin Operators
       \/ ~RightShape(cond.v[1].k, cond.v[1].val)

C27_MalformedOperatorFails ==
    (Called("eval_condition") /\ Malformed(calc.arg)) => calc.out = "ConditionError"

(***************************************************************************)
(* C28.  The outcome of $and, $or and of the list form equals evaluating    *)
(* every element in full and combining the results: it is an error          *)
(* whenever some element's evaluation is an error, wherever that element    *)
(* stands.                                                                  *)
(***************************************************************************)
IsCombinator(cond) ==
    \/ cond.t = "list"
    \/ /\ cond.t = "map"
       /\ Len(cond.v) = 1
       /\ cond.v[1].k \in {OpAnd, OpOr}
       /\ cond.v[1].val.t = "list"
ItemsOf(cond) == IF cond.t = "list" THEN cond.v ELSE cond.v[1].val.v
IsOr(cond) == cond.t = "map" /\ cond.v[1].k = OpOr

\* Every element evaluated, then combined: the first error if there is one.
FullEvaluation(cond, ctx) ==
    LET items == ItemsOf(cond)
        each == [i \in 1 .. Len(items) |-> EvalCondition(items[i], ctx)]
        errors == {i \in 1 .. Len(items) : each[i] \notin {"true", "false"}}
    IN  IF errors # {} THEN each[Min(errors)]
        ELSE IF IsOr(cond) THEN FromBool(\E i \in 1 .. Len(items) : each[i] = "true")
        ELSE FromBool(\A i \in 1 .. Len(items) : each[i] = "true")

\* (Elements whose path makes lookup_path raise are left to C30.)
PathsResolve(cond, ctx) ==
    \A i \in 1 .. Len(ItemsOf(cond)) : EvalCondition(ItemsOf(cond)[i], ctx) # "ValueError"

C28_CombinatorsEvaluateInFull ==
    (Called("eval_condition") /\ IsCombinator(calc.arg) /\ PathsResolve(calc.arg, calc.ctx)) =>
        calc.out = FullEvaluation(calc.arg, calc.ctx)

(***************************************************************************)
(* C29.  An equality map is true iff every entry's path resolves to the     *)
(* expected value, where values of different types are never equal (a       *)
(* number is not a string, a boolean is not a number); changing one         *)
(* expected value to a different value makes a true map false.              *)
(***************************************************************************)
IsEqualityMap(cond) == cond.t = "map" /\ ~is_op_dict(cond)

\* Equality of JSON values with their types: the values of the model carry
\* their type, so this is equality of the records.
SameTypedValue(a, b) == a = b

EntryHolds(e, ctx) == SameTypedValue(LookupPath(e.k, ctx).val, e.val)
WithExpected(cond, i, value) == Map([cond.v EXCEPT ![i] = Entry(cond.v[i].k, value)])

\* Every key is a path (a blank key makes the map false whatever it expects).
KeysArePaths(cond) == \A i \in 1 .. Len(cond.v) : strip(cond.v[i].k) # <<>>

C29_EqualityIsTypeSensitive ==
    (Called("eval_condition") /\ IsEqualityMap(calc.arg) /\ KeysArePaths(calc.arg)) =>
        /\ (calc.out = "true") <=>
               \A i \in 1 .. Len(calc.arg.v) : EntryHolds(calc.arg.v[i], calc.ctx)
        /\ calc.out = "true" =>
               \A i \in 1 .. Len(calc.arg.v) : \A value \in EqValues :
                   ~SameTypedValue(value, calc.arg.v[i].val) =>
                       EvalCondition(WithExpected(calc.arg, i, value), calc.ctx) = "false"

(***************************************************************************)
(* C30.  Path resolution never fails: for every path string and context it  *)
(* returns a value or null, and null for an empty or blank path.            *)
(***************************************************************************)
C30_LookupNeverFails ==
    Called("lookup_path") =>
        /\ ~calc.out.raised
        /\ strip(calc.arg.v) = <<>> => calc.out = Val(None)

(***************************************************************************)
(* C31.  Evaluating a condition leaves the context the caller passed as it  *)
(* was: $any and $all bind "item" in a copy made for each element, so no    *)
(* "item" key is added, and a key "item" of the caller keeps its value,     *)
(* while inside the nested condition "item" is the element.                 *)
(***************************************************************************)
QuantifiesItem(cond) ==
    /\ cond.t = "map"
    /\ Len(cond.v) = 1
    /\ cond.v[1].k \in {OpAny, OpAll}
    /\ ReachesLoop(cond.v[1].val, calc.given)
    /\ cond.v[1].val.v[2].v # <<>>
    /\ cond.v[1].val.v[2].v[1].k = ItemKey
ElementsOf(cond) == LookupPath(cond.v[1].val.v[1].v, calc.given).val.v
ExpectedItem(cond) == cond.v[1].val.v[2].v[1].val

C31_ContextUnchanged ==
    Called("eval_condition") =>
        /\ calc.ctx = calc.given
        /\ (QuantifiesItem(calc.arg) /\ calc.arg.v[1].k = OpAny) =>
               (calc.out = "true") <=>
                   \E i \in 1 .. Len(ElementsOf(calc.arg)) :
                       PyEq(ElementsOf(calc.arg)[i], ExpectedItem(calc.arg))
        /\ (QuantifiesItem(calc.arg) /\ calc.arg.v[1].k = OpAll) =>
               (calc.out = "true") <=>
                   \A i \in 1 .. Len(ElementsOf(calc.arg)) :
                       PyEq(ElementsOf(calc.arg)[i], ExpectedItem(calc.arg))

\* $any found an element equal to 1 in a context whose own "item" is 2.
C31_Witness ==
    /\ Called("eval_condition")
    /\ ItemKey \in Keys(calc.given)
    /\ calc.arg = Op1(OpAny, Pair(<< "l" >>, Op1(ItemKey, Num(1))))
    /\ calc.out = "true"
    /\ MapGet(calc.ctx, ItemKey) = Num(2)

(***************************************************************************)
(* C32.  For an executed sequential step the result is recorded under the   *)
(* step's id first, and each assignment of the step's set is then rendered  *)
(* against the context that holds that result and the variables assigned    *)
(* before it; both writes are made before the on_error decision, so a flow  *)
(* that ends on the step's failure ends with them in steps and vars.        *)
(***************************************************************************)
\* vars as the n-th assignment of the set sees them (the keys are distinct)
EarlierKeys(step, n) == {step.set[m].key : m \in 1 .. (n - 1)}
VarsSeen(f, step, n) ==
    [key \in DOMAIN heap[f.V] \cup EarlierKeys(step, n) |->
        IF key \in EarlierKeys(step, n) THEN heap'[f.V][key] ELSE heap[f.V][key]]

RecordedThenSet(f, step, stepsMap, varsMap) ==
    /\ step.id \in DOMAIN stepsMap
    /\ stepsMap[step.id] = f.cur
    /\ \A n \in 1 .. Len(step.set) :
          /\ step.set[n].key \in DOMAIN varsMap
          /\ varsMap[step.set[n].key] =
                 render_value(step.set[n].tpl, f.input, stepsMap, VarsSeen(f, step, n))

FlowsIn(t, n) == Cardinality({m \in 1 .. n : Stack(t)[m].kind = "flow"})

\* the flow invocations around frame n of thread t: those below it on its
\* stack, and those of the thread that waits for t as a member of a group
RECURSIVE Enclosing(_, _)
Enclosing(t, n) ==
    FlowsIn(t, n - 1) +
        (IF threads[t].parent = 0 THEN 0
         ELSE Enclosing(threads[t].parent, Len(Stack(threads[t].parent)) + 1))

ProcessesSteps(f) == f.kind = "flow" /\ f.pc # "enter"

C33_DepthCountsEnclosingFlows ==
    \A a \in FramesAt :
        LET f == FrameOf(a)
        IN  /\ ProcessesSteps(f) => f.depth <= 24
            /\ f.kind = "flow" => f.depth = Enclosing(a.t, a.n)
            /\ f.kind = "step" => f.depth + 1 = Enclosing(a.t, a.n)
            /\ (f.kind = "flow" /\ a.n > 1) => f.depth = Stack(a.t)[a.n - 1].depth + 1

\* A flow with 24 flow invocations around it runs its steps.
C33_Witness ==
    /\ root = "L1"
    /\ \E a \in FramesAt : ProcessesSteps(FrameOf(a)) /\ FrameOf(a).depth = 24

(***************************************************************************)
(* C34.  When the merge of a parallel group ends the flow at member k       *)
(* (failed, on_error other than continue), the live steps hold a result     *)
(* for each member declared at or before k and none for the members after   *)
(* k, whose set is not applied although their workers ran to the end.       *)
(***************************************************************************)
\* what the worker of a member gave, or the skip result of a member not run
GivenBy(t, f, m) ==
    IF m \notin f.toRun THEN SkippedResult
    ELSE LET o == threads[KidOf(t, m)].out
         IN  IF o.raised THEN Result(FALSE, 500, ErrorData(o.exc)) ELSE o.res

FailsAndStops(t, f) ==
    ~GivenBy(t, f, f.k).ok /\ StepAt(f, f.k).on_error # "continue"

IdsUpTo(f, k) == {StepAt(f, m).id : m \in f.i .. k}
KeysUpTo(f, k) == UNION {SetKeys(StepAt(f, m)) : m \in f.i .. k}

CutAt(t, f, stepsMap, varsMap) ==
    /\ \A m \in f.i .. f.k :
          /\ StepAt(f, m).id \in DOMAIN stepsMap
          /\ stepsMap[StepAt(f, m).id] = GivenBy(t, f, m)
          /\ SetKeys(StepAt(f, m)) \subseteq DOMAIN varsMap
    /\ \A m \in (f.k + 1) .. (f.j - 1) :
          /\ StepAt(f, m).id \notin DOMAIN stepsMap \ DOMAIN f.startS
          /\ \A key \in SetKeys(StepAt(f, m)) \ KeysUpTo(f, f.k) :
                key \notin DOMAIN varsMap \ DOMAIN f.startV

C34_MergeStopsAtFailedMember ==
    [][\A t \in ThreadIds :
          (AtPc(t, "flow", "merge") /\ threads'[t] # threads[t] /\ FailsAndStops(t, Top(t))) =>
              LET f == Top(t)
              IN  /\ CutAt(t, f, heap'[f.S], heap'[f.V])
                  /\ \A m \in (f.k + 1) .. (f.j - 1) :
                        m \in f.toRun => threads[KidOf(t, m)].state = "done"
                  /\ Len(threads'[t].stack) < Len(Stack(t))
                  /\ (t = MainThread /\ Len(Stack(t)) = 1) =>
                        /\ outcome'.o = Returned(GivenBy(t, f, f.k))
                        /\ CutAt(t, f, outcome'.steps, outcome'.vars)]_vars

\* T_cut ended at b: a and b are recorded and set, c (run) and d (skipped) not,
\* and c's action was called.
C34_Witness ==
    /\ Done
    /\ root = "T_cut"
    /\ DOMAIN outcome.steps = {"a", "b"}
    /\ outcome.vars = ("va" :> Str("a")) @@ ("vb" :> Num(500))
    /\ (\E c \in invoked : c.flow = "T_cut" /\ c.use = "v_ok")
    /\ outcome.o = Returned(Result(FALSE, 500, Str("e1")))

(***************************************************************************)
(* C35.  In the merge of a parallel group the set of member k is rendered   *)
(* against the live context, which holds the results and set variables of   *)
(* the members declared before k and of k itself and of no member declared  *)
(* after k; the variables a flow ends with therefore depend on the declared *)
(* order alone, not on the order in which the members ran.                  *)
(***************************************************************************)
MergedThenSet(t, f, stepsMap, varsMap) ==
    LET step == StepAt(f, f.k)
    IN  /\ \A m \in f.i .. f.k :
              /\ StepAt(f, m).id \in DOMAIN stepsMap
              /\ stepsMap[StepAt(f, m).id] = GivenBy(t, f, m)
        /\ \A m \in (f.k + 1) .. (f.j - 1) :
              StepAt(f, m).id \notin DOMAIN stepsMap \ DOMAIN f.startS
        /\ \A n \in 1 .. Len(step.set) :
              /\ step.set[n].key \in DOMAIN varsMap
              /\ varsMap[step.set[n].key] =
                     render_value(step.set[n].tpl, f.input, stepsMap, VarsSeen(f, step, n))

C35_SetSeesMergedSoFar ==
    [][\A t \in ThreadIds :
          (AtPc(t, "flow", "merge") /\ threads'[t] # threads[t]) =>
              MergedThenSet(t, Top(t), heap'[Top(t).S], heap'[Top(t).V])]_vars

C35_VarsByDeclaredOrder ==
    /\ C35_SetSeesMergedSoFar
    /\ [](run = 2 /\ Done /\ HasParallelGroup(root) => outcome.vars = first.vars)

(***************************************************************************)
(* C36.  If the when of a member of a parallel group raises a condition     *)
(* error, the flow fails before any member of the group is dispatched: no   *)
(* action of the group is invoked and the live steps and vars are as they   *)
(* were when the group started.                                             *)
(***************************************************************************)
WhenRaises(f, m) ==
    /\ StepAt(f, m).when.op \notin {"none", "false"}
    /\ eval_condition(StepAt(f, m).when, f.input, f.startS, f.startV) = "error"

GroupUntouched(f, stepsMap, varsMap) == stepsMap = f.startS /\ varsMap = f.startV

C36_BadWhenFailsBeforeDispatch ==
    [][\A t \in ThreadIds :
          (AtPc(t, "flow", "gate") /\ threads'[t] # threads[t] /\ WhenRaises(Top(t), Top(t).k)) =>
              LET f == Top(t)
              IN  /\ Kids(t) = {}
                  /\ invoked' = invoked
                  /\ GroupUntouched(f, heap'[f.S], heap'[f.V])
                  /\ Len(threads'[t].stack) < Len(Stack(t))
                  /\ Len(Stack(t)) > 1 =>
                        /\ threads'[t].stack[Len(Stack(t)) - 1].caught
                        /\ threads'[t].stack[Len(Stack(t)) - 1].lastExc = "when"
                  /\ (t = MainThread /\ Len(Stack(t)) = 1) =>
                        /\ outcome'.o = Raised("when")
                        /\ GroupUntouched(f, outcome'.steps, outcome'.vars)]_vars

\* T_gate failed on the when of g2: only s0 was recorded and only its action
\* was called.
C36_Witness ==
    /\ Done
    /\ root = "T_gate"
    /\ outcome.o = Raised("when")
    /\ DOMAIN outcome.steps = {"s0"}
    /\ DOMAIN outcome.vars = {"v0"}
    /\ {[flow |-> c.flow, use |-> c.use] : c \in invoked} = {[flow |-> "T_gate", use |-> "v_pub"]}

(***************************************************************************)
(* The flow orchestrator with its threads scheduled: while some thread (the  *)
(* main thread or a worker of a thread pool) can take a step, some thread   *)
(* eventually does.  No step of a thread waits for anything but the join of *)
(* its own workers.                                                         *)
(***************************************************************************)
ThreadStep(t) ==
    \/ EnterFlow(t)
    \/ FlowFinish(t)
    \/ SeqStep(t)
    \/ Record(t)
    \/ StepPrep(t)
    \/ StepAttempt(t)
    \/ StepAfter(t)
    \/ GroupStart(t)
    \/ GateMember(t)
    \/ Submit(t)
    \/ Join(t)
    \/ MergeMember(t)

FairSpec == Spec /\ WF_vars(\E t \in ThreadIds : ThreadStep(t))

(***************************************************************************)
(* C37.  Every flow invocation terminates, given that every action that is  *)
(* not a flow does: the step index of a flow only grows and has grown each  *)
(* time the loop is entered again, a step makes at most retries + 1         *)
(* attempts, and flows that invoke each other are cut off by the depth      *)
(* limit.                                                                   *)
(***************************************************************************)
SameFlowFrame(t, n) ==
    /\ n <= Len(Stack(t))
    /\ n <= Len(threads'[t].stack)
    /\ Stack(t)[n].kind = "flow"
    /\ threads'[t].stack[n].kind = "flow"

IndexGrows ==
    ~Done =>
        \A t \in ThreadIds : \A n \in 1 .. Len(Stack(t)) :
            SameFlowFrame(t, n) =>
                /\ threads'[t].stack[n].i >= Stack(t)[n].i
                /\ (/\ threads'[t].stack[n] # Stack(t)[n]
                    /\ threads'[t].stack[n].pc = "loop"
                    /\ Stack(t)[n].pc # "enter") =>
                        threads'[t].stack[n].i > Stack(t)[n].i

AttemptsBounded ==
    \A a \in StepFrames :
        /\ FrameOf(a).attempt <= RetriesOf(FrameOf(a))
        /\ FrameOf(a).calls <= RetriesOf(FrameOf(a)) + 1

DepthBounded == \A a \in FramesAt : FrameOf(a).depth <= 25

C37_EveryFlowTerminates ==
    /\ [][IndexGrows]_vars
    /\ [](AttemptsBounded /\ DepthBounded)
    /\ (~Done ~> Done)

\* The two flows that invoke each other ended, 25 invocations deep.
C37_Witness ==
    /\ Done
    /\ root = "F_ping"
    /\ run = 2

(***************************************************************************)
(* C38.  What a nested flow run by a member of a parallel group writes (its *)
(* flow-level vars, its step results, its set variables) never shows in the *)
(* live steps and vars of the invoking flow: when the group is over, the    *)
(* live maps differ from their contents at group start only by the entries  *)
(* the merge wrote for the group's own members.                             *)
(***************************************************************************)
GroupIds(f) == {StepAt(f, m).id : m \in f.i .. (f.j - 1)}
GroupKeys(f) == UNION {SetKeys(StepAt(f, m)) : m \in f.i .. (f.j - 1)}

OnlyMergeWrites(f, stepsMap, varsMap) ==
    /\ DOMAIN stepsMap \subseteq DOMAIN f.startS \cup GroupIds(f)
    /\ \A id \in DOMAIN f.startS \ GroupIds(f) :
          id \in DOMAIN stepsMap /\ stepsMap[id] = f.startS[id]
    /\ DOMAIN varsMap \subseteq DOMAIN f.startV \cup GroupKeys(f)
    /\ \A key \in DOMAIN f.startV \ GroupKeys(f) :
          key \in DOMAIN varsMap /\ varsMap[key] = f.startV[key]

\* the merge step after which the group is over
EndsGroup(t) ==
    /\ AtPc(t, "flow", "merge")
    /\ threads'[t] # threads[t]
    /\ \/ Len(threads'[t].stack) < Len(Stack(t))
       \/ threads'[t].state = "done"
       \/ threads'[t].stack[Len(Stack(t))].pc = "loop"

\* a member of the group runs a flow
RunsNestedFlow(f) ==
    \E m \in f.toRun :
        StepAt(f, m).use \in ActionNames /\ registry_get(StepAt(f, m).use).kind = "flow"

C38_NestedWritesStayOut ==
    [][\A t \in ThreadIds :
          (EndsGroup(t) /\ RunsNestedFlow(Top(t))) =>
              OnlyMergeWrites(Top(t), heap'[Top(t).S], heap'[Top(t).V])]_vars

\* the same for the flows that no worker runs (their live maps are their own)
C38_NestedWritesStayOutOfRoot ==
    [][(EndsGroup(MainThread) /\ RunsNestedFlow(Top(MainThread))) =>
          OnlyMergeWrites(Top(MainThread), heap'[Top(MainThread).S], heap'[Top(MainThread).V])]_vars

(***************************************************************************)
(* C39.  A flow whose step p is a parallel group of its own ends as the     *)
(* same flow with p sequential does, when p uses a registered action that   *)
(* is not a flow and whose auth level the flow may use: the same gate       *)
(* outcome (p runs, is skipped, or its when raises), the same invocations   *)
(* (which action, by which step, in which pass of the retry loop, hence the *)
(* same number), the same result or exception of the flow, and the same     *)
(* final contents of steps and vars.                                        *)
(***************************************************************************)
C39_OneMemberGroupAsSequential ==
    (run = 3 /\ Done) => outcome = first

(***************************************************************************)
(* _execute_http: the retry loop around _urlopen_read.  One call of an http *)
(* action with `retries` in the range the loader admits; the remote end     *)
(* answers each request with a status (urllib's HTTPError is a response     *)
(* too) or the request raises.  The loop's variable is attempt; sent counts *)
(* the requests, got keeps what each request gave.  With retries >= 0 every *)
(* pass either continues with attempt < retries or returns, so the lines    *)
(* after the loop are not reached.                                          *)
(***************************************************************************)
MaxHttpRetries == 2

\* (a slip: only server errors are retried)
RETRYABLE_HTTP_STATUS_5xxOnly == 500 .. 599

RETRYABLE_HTTP_STATUS == {408, 429} \cup (500 .. 599)

\* what a request can raise: the exception's type and, of a URLError, its reason
HttpExc(type, reason) == [type |-> type, reason |-> reason]
HttpExceptions ==
    {HttpExc("TimeoutError", ""), HttpExc("URLError", "socket.timeout"),
     HttpExc("URLError", "ConnectionRefusedError"), HttpExc("ConnectionResetError", "")}
HttpStatuses == {200, 204, 299, 300, 301, 404, 408, 429, 500, 503, 599}

is_timeout_exc(exc) ==
    \/ exc.type = "TimeoutError"
    \/ exc.type = "socket.timeout"
    \/ exc.type = "URLError" /\ exc.reason = "socket.timeout"

Response(status) == [raised |-> FALSE, status |-> status, exc |-> HttpExc("", "")]
Failure(exc) == [raised |-> TRUE, status |-> 0, exc |-> exc]

HttpCall(retries) ==
    [fn |-> "http", retries |-> retries, attempt |-> 0, sent |-> 0, got |-> <<>>,
     done |-> FALSE, out |-> NoResult]

\* the body of the response as the call hands it on (its parsing is not modelled)
HttpBody == Str("body")

\* One pass of the loop in which _urlopen_read returns a status.
HttpResponse(status) ==
    /\ calc.fn = "http"
    /\ ~calc.done
    /\ calc.attempt <= calc.retries
    /\ calc' = IF status \in RETRYABLE_HTTP_STATUS /\ calc.attempt < calc.retries
               THEN [calc EXCEPT !.sent = @ + 1, !.got = Append(@, Response(status)),
                                 !.attempt = @ + 1]
               ELSE [calc EXCEPT !.sent = @ + 1, !.got = Append(@, Response(status)),
                                 !.done = TRUE,
                                 !.out = Result(200 <= status /\ status < 300, status, HttpBody)]
    /\ UNCHANGED <<root, run, first, heap, threads, outcome, invoked, now>>

\* One pass of the loop in which _urlopen_read raises.
HttpException(exc) ==
    /\ calc.fn = "http"
    /\ ~calc.done
    /\ calc.attempt <= calc.retries
    /\ calc' = IF calc.attempt < calc.retries
               THEN [calc EXCEPT !.sent = @ + 1, !.got = Append(@, Failure(exc)),
                                 !.attempt = @ + 1]
               ELSE [calc EXCEPT !.sent = @ + 1, !.got = Append(@, Failure(exc)),
                                 !.done = TRUE,
                                 !.out = Result(FALSE, IF is_timeout_exc(exc) THEN 504 ELSE 502,
                                                ErrorData(exc.type))]
    /\ UNCHANGED <<root, run, first, heap, threads, outcome, invoked, now>>

HttpInit ==
    /\ calc \in {HttpCall(r) : r \in 0 .. MaxHttpRetries}
    /\ root = "T_none"
    /\ run = 1
    /\ first = NoFinal
    /\ heap = <<>>
    /\ threads = [u \in ThreadIds |-> FreeThread]
    /\ outcome = NoFinal
    /\ invoked = {}
    /\ now = 0

HttpNext ==
    \/ \E status \in HttpStatuses : HttpResponse(status)
    \/ \E exc \in HttpExceptions : HttpException(exc)

HttpSpec == HttpInit /\ [][HttpNext]_vars

(***************************************************************************)
(* C40.  A call of an http action sends at most retries + 1 requests.  A    *)
(* response with status 408, 429 or 5xx, or a request that raised, is       *)
(* retried when it was not the last attempt: the call returns only on a     *)
(* response with another status or on attempt retries + 1, and every        *)
(* request before the one it returns on got a retryable status or raised.   *)
(* The last request's response is returned with its status, ok exactly for  *)
(* 200..299; if the last request raised, the result is not ok with status   *)
(* 504 for a timeout and 502 otherwise.                                     *)
(***************************************************************************)
Retryable(reply) ==
    reply.raised \/ reply.status = 408 \/ reply.status = 429
                 \/ (reply.status >= 500 /\ reply.status <= 599)
TimeoutExceptions == {HttpExc("TimeoutError", ""), HttpExc("URLError", "socket.timeout")}
LastReply == calc.got[Len(calc.got)]

C40_HttpRetryContract ==
    calc.fn = "http" =>
        /\ calc.sent = Len(calc.got)
        /\ calc.sent <= calc.retries + 1
        /\ \A n \in 1 .. Len(calc.got) :
              (n < Len(calc.got) \/ ~calc.done) => Retryable(calc.got[n])
        /\ ~calc.done => calc.sent <= calc.retries
        /\ calc.done =>
              /\ calc.sent >= 1
              /\ (Retryable(LastReply) => calc.sent = calc.retries + 1)
              /\ ~LastReply.raised =>
                    /\ calc.out.status = LastReply.status
                    /\ calc.out.ok <=> LastReply.status \in 200 .. 299
              /\ LastReply.raised =>
                    /\ ~calc.out.ok
                    /\ calc.out.status = IF LastReply.exc \in TimeoutExceptions THEN 504 ELSE 502

\* retries = 2: the first request raised, the second got 429, the third 503,
\* which is returned, not ok
C40_Witness ==
    /\ calc.fn = "http"
    /\ calc.done
    /\ calc.retries = 2
    /\ calc.got = << Failure(HttpExc("URLError", "socket.timeout")), Response(429), Response(503) >>
    /\ calc.out = Result(FALSE, 503, HttpBody)

====
